---- MODULE Spec2Model ----
(***************************************************************************)
(* Model of the B3 ETL core: DataCleaner.clean_data (data_cleaner.py), the *)
(* cleaning statistics of ETLProcessor (etl_processor.py) and              *)
(* TechnicalIndicators.calculate_all_indicators (technical_indicators.py), *)
(* and of the dashboard's job state: the DAG simulator (dag_simulator.py), *)
(* the ETL progress views (etl_views.py) and the ETL demo session          *)
(* (etl_processor.py, views.py).                                           *)
(*                                                                         *)
(* A DataFrame is a sequence of rows (records).  A cell is a record        *)
(* [k, v]: k = "num" a number, "nan" a missing value (NaN / None / NaT),   *)
(* "str" a text that holds the number v, "bad" a text that is neither a    *)
(* number nor a date, "iso" / "alt" two ways of writing the date v as      *)
(* text, "ts" a parsed timestamp.  Prices are integers; quartiles are kept *)
(* as 4 * value and the IQR bounds as 8 * value, so the linear             *)
(* interpolation of pandas' quantile is exact.                             *)
(***************************************************************************)
EXTENDS Integers, Sequences, FiniteSets, TLC

VARIABLES
    df,             \* the DataFrame handed to ETLProcessor._clean_data
    pads,           \* how many leading rows of df are plain history rows
    pc,             \* position inside _clean_data / clean_data
    cleaned_df,     \* the local cleaned_df of clean_data
    removed_count,  \* the removed_count each stage of clean_data computes
    cleaning_stats, \* ETLProcessor.cleaning_stats
    second_df,      \* clean_data applied to the output of clean_data
    calls,          \* how many calls of clean_data the instance has completed
    previous_df,    \* what the previous call of clean_data on df returned
    object,         \* the DataFrame object cleaned_df refers to
    bars,           \* the DataFrame handed to calculate_all_indicators
    ipc,            \* position inside calculate_all_indicators
    enriched_df,    \* the local enriched_df of calculate_all_indicators
    prev_enriched,  \* what the previous call returned, one bar earlier
    appended,       \* how many bars were appended one by one
    given,          \* the shape of a frame handed to one of the two entry points
    call,           \* the entry point that was called with it
    spc,            \* position inside that call, "returned" or "raised"
    work,           \* the shape of the local frame of the call
    error,          \* the exception that was raised
    piped,          \* given is what clean_data returned
    post_in,        \* a frame of indicator values handed to the final dropna
    post_out,       \* what the dropna returned
    ppc,            \* "input" before the dropna, "done" after it
    dag_run,        \* the DAGRun rows, by run
    task_instances, \* the status of the TaskInstance rows of each run
    simulator,      \* the DAGSimulator thread of each run: its position
    etl_progress,   \* the module-level dict etl_progress of etl_views.py
    etl_job,        \* the start_etl request of each job and the thread it starts
    airflow,        \* Airflow's DAG run of each job, as airflow_client reports it
    session,        \* the ETLSession row of one etl_demo session
    processor       \* the ETLProcessor of each process_csv request and its thread

cleanVars ==
    <<df, pads, pc, cleaned_df, removed_count, cleaning_stats, second_df,
      calls, previous_df, object>>

indVars == <<bars, ipc, enriched_df, prev_enriched, appended>>

shapeVars == <<given, call, spc, work, error, piped>>

postVars == <<post_in, post_out, ppc>>

dagVars == <<dag_run, task_instances, simulator>>

etlVars == <<etl_progress, etl_job, airflow>>

demoVars == <<session, processor>>

vars == <<cleanVars, indVars, shapeVars, postVars, dagVars, etlVars, demoVars>>

notCleanVars == <<indVars, shapeVars, postVars, dagVars, etlVars, demoVars>>

notIndVars == <<cleanVars, shapeVars, postVars, dagVars, etlVars, demoVars>>

notShapeVars == <<cleanVars, indVars, postVars, dagVars, etlVars, demoVars>>

notPostVars == <<cleanVars, indVars, shapeVars, dagVars, etlVars, demoVars>>

notDagVars == <<cleanVars, indVars, shapeVars, postVars, etlVars, demoVars>>

notEtlVars == <<cleanVars, indVars, shapeVars, postVars, dagVars, demoVars>>

notDemoVars == <<cleanVars, indVars, shapeVars, postVars, dagVars, etlVars>>

(***************************************************************************)
(* Bounds of the model.                                                    *)
(***************************************************************************)
MaxRows == 2        \* rows of df drawn freely from RowChoices
MaxPad == 3         \* plain history rows in front of them
MaxBars == 3        \* bars appended one by one to the indicator input
MaxCalls == 3       \* calls of clean_data on one instance
MaxPostRows == 3    \* rows of a frame handed to the final dropna
MaxRuns == 2        \* DAG runs started through start_dag
MaxLogs == 2        \* lines of etl_progress['logs'] the model keeps
MaxRequests == 2    \* process_csv requests on the etl_demo session
MaxFrameRows == 2   \* rows of a frame of which only the shape is kept

(***************************************************************************)
(* Cells.                                                                  *)
(***************************************************************************)
Num(v) == [k |-> "num", v |-> v]
NaN == [k |-> "nan", v |-> 0]
Str(v) == [k |-> "str", v |-> v]
BadStr == [k |-> "bad", v |-> 0]
Iso(d) == [k |-> "iso", v |-> d]
Alt(d) == [k |-> "alt", v |-> d]
Ts(d) == [k |-> "ts", v |-> d]
NullTicker == "<NA>"

isna(c) == c.k = "nan"

\* pd.Timestamp.now(): the processing instant, a day number
current_time == MaxPad + 2

SetMax(S) == CHOOSE x \in S : \A y \in S : y <= x
SetMin(S) == CHOOSE x \in S : \A y \in S : x <= y

Indices(d) == [i \in 1..Len(d) |-> i]

\* df[mask]: the rows whose position satisfies Keep, in their order
Filter(d, Keep(_)) ==
    LET idx == SelectSeq(Indices(d), Keep)
    IN  [j \in 1..Len(idx) |-> d[idx[j]]]

PriceColumns == <<"open", "close", "high", "low">>

\* df.copy(), df.drop_duplicates(...), df.dropna(...), df[mask] and
\* sort_values(...) return a new DataFrame object, whatever they are called on
same_object(o) == o

new_object(o) == "local"

(***************************************************************************)
(* DataCleaner._remove_duplicates                                          *)
(***************************************************************************)
SameKey(r1, r2) == r1.datetime = r2.datetime /\ r1.ticker = r2.ticker

remove_duplicates_keep_first(d) ==
    Filter(d, LAMBDA i : \A j \in 1..(i - 1) : ~SameKey(d[i], d[j]))

_remove_duplicates(d) ==
    Filter(d, LAMBDA i : \A j \in (i + 1)..Len(d) : ~SameKey(d[i], d[j]))

(***************************************************************************)
(* DataCleaner._handle_missing_values                                      *)
(***************************************************************************)
dropna_critical(d) ==
    Filter(d, LAMBDA i : /\ ~isna(d[i].datetime)
                         /\ d[i].ticker # NullTicker
                         /\ ~isna(d[i].close))

\* groupby('ticker')[col].fillna(method='ffill'): in the order of the rows
ffill(d, col) ==
    [i \in 1..Len(d) |->
        LET prev == {j \in 1..(i - 1) :
                        d[j].ticker = d[i].ticker /\ ~isna(d[j][col])}
        IN  IF isna(d[i][col]) /\ prev # {}
            THEN [d[i] EXCEPT ![col] = d[SetMax(prev)][col]]
            ELSE d[i]]

bfill(d, col) ==
    [i \in 1..Len(d) |->
        LET next == {j \in (i + 1)..Len(d) :
                        d[j].ticker = d[i].ticker /\ ~isna(d[j][col])}
        IN  IF isna(d[i][col]) /\ next # {}
            THEN [d[i] EXCEPT ![col] = d[SetMin(next)][col]]
            ELSE d[i]]

fill_column(d, col) == bfill(ffill(d, col), col)

_handle_missing_values(d) ==
    fill_column(fill_column(fill_column(fill_column(
        dropna_critical(d), "open"), "high"), "low"), "volume")

(***************************************************************************)
(* DataCleaner._validate_data_types                                        *)
(***************************************************************************)
\* pd.to_datetime(errors='coerce')
to_datetime(c) ==
    IF c.k \in {"iso", "alt", "ts"} THEN Ts(c.v) ELSE NaN

\* astype(str).str.upper()
upper(t) ==
    IF t = "a" THEN "A" ELSE IF t = "b" THEN "B" ELSE t

\* pd.to_numeric(errors='coerce')
to_numeric(c) ==
    IF c.k \in {"num", "str"} THEN Num(c.v) ELSE NaN

_validate_data_types(d) ==
    [i \in 1..Len(d) |->
        [d[i] EXCEPT !.datetime = to_datetime(@),
                     !.ticker = upper(@),
                     !.open = to_numeric(@),
                     !.close = to_numeric(@),
                     !.high = to_numeric(@),
                     !.low = to_numeric(@),
                     !.volume = to_numeric(@)]]

(***************************************************************************)
(* DataCleaner._fix_data_inconsistencies                                   *)
(***************************************************************************)
\* max(axis=1) and min(axis=1) skip NaN
NumValues(cells) == {c.v : c \in {x \in cells : ~isna(x)}}

row_max(cells) ==
    IF NumValues(cells) = {} THEN NaN ELSE Num(SetMax(NumValues(cells)))

row_min(cells) ==
    IF NumValues(cells) = {} THEN NaN ELSE Num(SetMin(NumValues(cells)))

clip_lower_0(c) == IF ~isna(c) /\ c.v < 0 THEN Num(0) ELSE c

fix_row_no_repair(r) == [r EXCEPT !.volume = clip_lower_0(@)]

fix_row(r) ==
    [r EXCEPT !.high = row_max({r.high, r.open, r.close}),
              !.low = row_min({r.low, r.open, r.close}),
              !.volume = clip_lower_0(@)]

_fix_data_inconsistencies(d) == [i \in 1..Len(d) |-> fix_row(d[i])]

(***************************************************************************)
(* DataCleaner._remove_outliers_iqr                                        *)
(***************************************************************************)
RECURSIVE InsertSorted(_, _)
InsertSorted(x, s) ==
    IF s = <<>> THEN <<x>>
    ELSE IF x <= Head(s) THEN <<x>> \o s
    ELSE <<Head(s)>> \o InsertSorted(x, Tail(s))

RECURSIVE SortAscending(_)
SortAscending(s) ==
    IF s = <<>> THEN <<>> ELSE InsertSorted(Head(s), SortAscending(Tail(s)))

\* the non-NaN values of a column, ascending
ColumnValues(d, col) ==
    LET present == SelectSeq(Indices(d), LAMBDA i : ~isna(d[i][col]))
    IN  SortAscending([j \in 1..Len(present) |-> d[present[j]][col].v])

\* 4 * Series.quantile(q4 / 4) of the ascending values s, s not empty:
\* linear interpolation at position (n - 1) * q4 / 4
quantile_x4(s, q4) ==
    LET pos4 == q4 * (Len(s) - 1)
        lo == (pos4 \div 4) + 1
        r == pos4 % 4
    IN  IF r = 0 THEN 4 * s[lo]
        ELSE 4 * s[lo] + r * (s[lo + 1] - s[lo])

\* 8 * lower_bound and 8 * upper_bound
lower_bound_x8(s) ==
    2 * quantile_x4(s, 1) - 3 * (quantile_x4(s, 3) - quantile_x4(s, 1))

upper_bound_x8(s) ==
    2 * quantile_x4(s, 3) + 3 * (quantile_x4(s, 3) - quantile_x4(s, 1))

iqr_filter_per_ticker(d, col) ==
    Filter(d, LAMBDA i :
        LET s == ColumnValues(Filter(d, LAMBDA j : d[j].ticker = d[i].ticker), col)
        IN  /\ ~isna(d[i][col])
            /\ 8 * d[i][col].v >= lower_bound_x8(s)
            /\ 8 * d[i][col].v <= upper_bound_x8(s))

\* one pass of the loop over price_columns; a NaN cell, and any cell when
\* the quartiles are NaN, fails both comparisons
iqr_filter(d, col) ==
    LET s == ColumnValues(d, col)
    IN  Filter(d, LAMBDA i : /\ ~isna(d[i][col])
                             /\ 8 * d[i][col].v >= lower_bound_x8(s)
                             /\ 8 * d[i][col].v <= upper_bound_x8(s))

_remove_outliers_iqr(d) ==
    iqr_filter(iqr_filter(iqr_filter(iqr_filter(
        d, "open"), "close"), "high"), "low")

_remove_outliers(d) == _remove_outliers_iqr(d)

(***************************************************************************)
(* DataCleaner._validate_business_rules                                    *)
(***************************************************************************)
positive(d, col) ==
    Filter(d, LAMBDA i : ~isna(d[i][col]) /\ d[i][col].v > 0)

volume_not_negative_or_null(d) ==
    Filter(d, LAMBDA i : isna(d[i].volume) \/ d[i].volume.v >= 0)

volume_not_negative(d) ==
    Filter(d, LAMBDA i : ~isna(d[i].volume) /\ d[i].volume.v >= 0)

not_future_clock_advancing(d) ==
    Filter(d, LAMBDA i : ~isna(d[i].datetime)
                         /\ d[i].datetime.v <= current_time + calls)

not_future(d) ==
    Filter(d, LAMBDA i : ~isna(d[i].datetime)
                         /\ d[i].datetime.v <= current_time)

validate_business_rules_any_date(d) ==
    volume_not_negative(
        positive(positive(positive(positive(
            d, "open"), "close"), "high"), "low"))

_validate_business_rules(d) ==
    not_future(volume_not_negative(
        positive(positive(positive(positive(
            d, "open"), "close"), "high"), "low")))

(***************************************************************************)
(* sort_values(['datetime', 'ticker']).reset_index(drop=True)              *)
(***************************************************************************)
TickerRank(t) ==
    IF t = "A" THEN 1 ELSE IF t = "B" THEN 2
    ELSE IF t = "a" THEN 3 ELSE IF t = "b" THEN 4 ELSE 5

\* NaT sorts last
DateRank(c) == IF isna(c) THEN current_time + 2 ELSE c.v

RowLess(r1, r2) ==
    \/ DateRank(r1.datetime) < DateRank(r2.datetime)
    \/ /\ DateRank(r1.datetime) = DateRank(r2.datetime)
       /\ TickerRank(r1.ticker) < TickerRank(r2.ticker)

sort_values_unsorted(d) == d

RECURSIVE InsertRow(_, _)
InsertRow(x, s) ==
    IF s = <<>> THEN <<x>>
    ELSE IF RowLess(x, Head(s)) THEN <<x>> \o s
    ELSE <<Head(s)>> \o InsertRow(x, Tail(s))

\* stable: rows with equal keys keep their order
RECURSIVE sort_values(_)
sort_values(d) ==
    IF d = <<>> THEN <<>>
    ELSE InsertRow(d[Len(d)], sort_values(SubSeq(d, 1, Len(d) - 1)))

reset_index(d) == [i \in 1..Len(d) |-> [d[i] EXCEPT !.index = i - 1]]

(***************************************************************************)
(* DataCleaner.clean_data as one function                                  *)
(***************************************************************************)
clean_data(d) ==
    reset_index(sort_values(
        _validate_business_rules(
            _remove_outliers(
                _fix_data_inconsistencies(
                    _validate_data_types(
                        _handle_missing_values(
                            _remove_duplicates(d))))))))

(***************************************************************************)
(* ETLProcessor._capture_cleaning_stats_from_cleaner                       *)
(***************************************************************************)
EmptyStats ==
    [duplicates_removed |-> 0, null_values_removed |-> 0,
     outliers_removed |-> 0, business_rules_violations |-> 0,
     type_conversions |-> 0, inconsistencies_fixed |-> 0]

StatsSum(s) ==
    s.duplicates_removed + s.null_values_removed + s.outliers_removed
    + s.business_rules_violations + s.type_conversions
    + s.inconsistencies_fixed

\* int(total_removed * 0.8), int(total_removed * 0.15), int(total_removed * 0.05)
DistributedStats(total_removed) ==
    [EmptyStats EXCEPT
        !.outliers_removed = (total_removed * 80) \div 100,
        !.business_rules_violations = (total_removed * 15) \div 100,
        !.null_values_removed = (total_removed * 5) \div 100]

_capture_cleaning_stats_from_cleaner(d, d_clean) ==
    LET total_removed == Len(d) - Len(d_clean)
        distributed == DistributedStats(total_removed)
        remaining == total_removed - StatsSum(distributed)
    IN  IF total_removed > 0
        THEN IF remaining > 0
             THEN [distributed EXCEPT !.outliers_removed = @ + remaining]
             ELSE distributed
        ELSE EmptyStats

(***************************************************************************)
(* The inputs: df is MaxPad or fewer plain history rows of ticker A on the *)
(* days 3, 4, ... followed by MaxRows or fewer rows drawn from RowChoices. *)
(***************************************************************************)
Row(dt, t, o, c, h, l, v) ==
    [datetime |-> dt, ticker |-> t, open |-> o, close |-> c,
     high |-> h, low |-> l, volume |-> v]

WithIndex(r, i) ==
    [index |-> i, row_id |-> i + 1, datetime |-> r.datetime,
     ticker |-> r.ticker, open |-> r.open, close |-> r.close,
     high |-> r.high, low |-> r.low, volume |-> r.volume]

PadRow(n) == Row(Iso(n + 3), "A", Num(4), Num(4), Num(4), Num(1), Num(5))

\* a sound row under every way of writing its key
KeyChoices ==
    { Row(dt, t, Num(4), Num(4), Num(4), Num(4), Num(5)) :
        <<dt, t>> \in { <<Iso(1), "A">>, <<Iso(1), "a">>, <<Alt(1), "A">>,
                        <<Iso(2), "A">>, <<Iso(1), "B">>,
                        <<Iso(current_time + 1), "A">>,
                        <<NaN, "A">>, <<BadStr, "A">>,
                        <<Iso(1), NullTicker>> } }

\* one key under every kind of defect of its values
ValueChoices ==
    { Row(Iso(1), "A", Num(4), Num(4), Num(4), Num(2), Num(5)),
      Row(Iso(1), "A", Num(2), Num(4), Num(0), Num(4), Num(5)),
      Row(Iso(1), "A", Num(4), Num(0 - 5), Num(4), Num(4), Num(5)),
      Row(Iso(1), "A", Num(4), NaN, Num(4), Num(4), Num(5)),
      Row(Iso(1), "A", Num(4), BadStr, Num(4), Num(4), Num(5)),
      Row(Iso(1), "A", Num(4), Str(4), Num(4), Num(4), Num(5)),
      Row(Iso(1), "A", NaN, Num(4), Num(4), Num(4), Num(5)),
      Row(Iso(2), "A", NaN, Num(4), Num(4), Num(4), Num(5)),
      Row(Iso(1), "A", Num(4), Num(4), Num(4), Num(4), Num(0 - 3)),
      Row(Iso(1), "A", Num(4), Num(4), Num(4), Num(4), NaN),
      Row(Iso(1), "A", Num(0), Num(4), Num(4), Num(4), Num(5)),
      Row(Iso(1), "A", Num(4), Num(4), Num(4), Num(0), Num(5)) }

RowChoices == KeyChoices \cup ValueChoices

NoCounts == [duplicates |-> 0, missing |-> 0, outliers |-> 0, business |-> 0]

Init ==
    /\ df = <<>>
    /\ pads = 0
    /\ pc = "input"
    /\ cleaned_df = <<>>
    /\ removed_count = NoCounts
    /\ cleaning_stats = EmptyStats
    /\ second_df = <<>>
    /\ calls = 0
    /\ previous_df = <<>>
    /\ object = "df"
    /\ bars = <<>>
    /\ ipc = "input"
    /\ enriched_df = <<>>
    /\ prev_enriched = <<>>
    /\ appended = 0
    /\ given = [columns |-> {}, rows |-> 0, null_rows |-> 0]
    /\ call = "none"
    /\ spc = "input"
    /\ work = [columns |-> {}, rows |-> 0, null_rows |-> 0]
    /\ error = "none"
    /\ piped = FALSE
    /\ post_in = <<>>
    /\ post_out = <<>>
    /\ ppc = "input"
    /\ dag_run = [r \in 1..MaxRuns |->
                     [status |-> "none", total_tasks |-> 0, completed_tasks |-> 0,
                      failed_tasks |-> 0, end_time |-> FALSE]]
    /\ task_instances = [r \in 1..MaxRuns |-> <<>>]
    /\ simulator = [r \in 1..MaxRuns |-> [pc |-> "none", i |-> 0, left |-> <<>>]]
    /\ etl_progress = [status |-> "idle", by |-> 0, progress |-> 0,
                       progress_by |-> 0, logs |-> <<>>, errors |-> <<>>,
                       dag_run_id |-> 0]
    /\ etl_job = [j \in {1, 2} |->
                     [pc |-> "none", dag_run_id |-> 0, i |-> 0,
                      current_task_index |-> 0]]
    /\ airflow = [j \in {1, 2} |-> [state |-> "none", done |-> 0]]
    /\ session = [status |-> "uploaded", progress |-> 0]
    /\ processor = [p \in 1..MaxRequests |->
                       [pc |-> "none", rows |-> 0, i |-> 0,
                        session |-> [status |-> "uploaded", progress |-> 0]]]

AddPad ==
    /\ pc = "input"
    /\ Len(df) = pads
    /\ pads < MaxPad
    /\ df' = Append(df, WithIndex(PadRow(pads), Len(df)))
    /\ pads' = pads + 1
    /\ UNCHANGED <<pc, cleaned_df, removed_count, cleaning_stats, second_df>>
    /\ UNCHANGED <<calls, previous_df, object>>
    /\ UNCHANGED notCleanVars

AddRow ==
    /\ pc = "input"
    /\ Len(df) - pads < MaxRows
    /\ \E r \in RowChoices : df' = Append(df, WithIndex(r, Len(df)))
    /\ UNCHANGED <<pads, pc, cleaned_df, removed_count, cleaning_stats, second_df>>
    /\ UNCHANGED <<calls, previous_df, object>>
    /\ UNCHANGED notCleanVars

\* the caller's df when the local DataFrame o was assigned to in place and
\* holds d now
Caller(o, d) == IF o = "df" THEN d ELSE df

\* ETLProcessor._clean_data calls clean_data: cleaned_df = df.copy()
StartCleaning ==
    /\ pc = "input"
    /\ Len(df) > 0
    /\ pc' = "remove_duplicates"
    /\ cleaned_df' = df
    /\ object' = new_object("df")
    /\ UNCHANGED <<df, pads, removed_count, cleaning_stats, second_df>>
    /\ UNCHANGED <<calls, previous_df>>
    /\ UNCHANGED notCleanVars

\* df_clean = df.drop_duplicates(...)
RemoveDuplicates ==
    /\ pc = "remove_duplicates"
    /\ cleaned_df' = _remove_duplicates(cleaned_df)
    /\ object' = new_object(object)
    /\ removed_count' =
           [removed_count EXCEPT !.duplicates = Len(cleaned_df) - Len(cleaned_df')]
    /\ pc' = "handle_missing_values"
    /\ UNCHANGED <<df, pads, cleaning_stats, second_df, calls, previous_df>>
    /\ UNCHANGED notCleanVars

\* df_clean = df.dropna(...), then df_clean[col] = ... fills df_clean
HandleMissingValues ==
    /\ pc = "handle_missing_values"
    /\ cleaned_df' = _handle_missing_values(cleaned_df)
    /\ object' = new_object(object)
    /\ df' = Caller(object', cleaned_df')
    /\ removed_count' =
           [removed_count EXCEPT !.missing = Len(cleaned_df) - Len(cleaned_df')]
    /\ pc' = "validate_data_types"
    /\ UNCHANGED <<pads, cleaning_stats, second_df, calls, previous_df>>
    /\ UNCHANGED notCleanVars

\* df[col] = ... assigns to the columns of the DataFrame it was given
ValidateDataTypes ==
    /\ pc = "validate_data_types"
    /\ cleaned_df' = _validate_data_types(cleaned_df)
    /\ df' = Caller(object, cleaned_df')
    /\ pc' = "fix_data_inconsistencies"
    /\ UNCHANGED <<pads, removed_count, cleaning_stats, second_df>>
    /\ UNCHANGED <<calls, previous_df, object>>
    /\ UNCHANGED notCleanVars

\* df['high'] = ..., df['low'] = ..., df['volume'] = ... likewise
FixDataInconsistencies ==
    /\ pc = "fix_data_inconsistencies"
    /\ cleaned_df' = _fix_data_inconsistencies(cleaned_df)
    /\ df' = Caller(object, cleaned_df')
    /\ pc' = "remove_outliers"
    /\ UNCHANGED <<pads, removed_count, cleaning_stats, second_df>>
    /\ UNCHANGED <<calls, previous_df, object>>
    /\ UNCHANGED notCleanVars

\* df_clean = df.copy(), then df_clean = df_clean[...]
RemoveOutliers ==
    /\ pc = "remove_outliers"
    /\ cleaned_df' = _remove_outliers(cleaned_df)
    /\ object' = new_object(object)
    /\ removed_count' =
           [removed_count EXCEPT !.outliers = Len(cleaned_df) - Len(cleaned_df')]
    /\ pc' = "validate_business_rules"
    /\ UNCHANGED <<df, pads, cleaning_stats, second_df, calls, previous_df>>
    /\ UNCHANGED notCleanVars

\* df = df[...] binds the local name to a new DataFrame
ValidateBusinessRules ==
    /\ pc = "validate_business_rules"
    /\ cleaned_df' = _validate_business_rules(cleaned_df)
    /\ object' = new_object(object)
    /\ removed_count' =
           [removed_count EXCEPT !.business = Len(cleaned_df) - Len(cleaned_df')]
    /\ pc' = "sort_values"
    /\ UNCHANGED <<df, pads, cleaning_stats, second_df, calls, previous_df>>
    /\ UNCHANGED notCleanVars

\* the last statement of clean_data, and the statistics taken on its return
SortAndReturn ==
    /\ pc = "sort_values"
    /\ cleaned_df' = reset_index(sort_values(cleaned_df))
    /\ object' = new_object(object)
    /\ cleaning_stats' = _capture_cleaning_stats_from_cleaner(df, cleaned_df')
    /\ pc' = "cleaned"
    /\ calls' = calls + 1
    /\ UNCHANGED <<df, pads, removed_count, second_df, previous_df>>
    /\ UNCHANGED notCleanVars

\* a second call of clean_data, on the DataFrame the first call returned
CleanAgain ==
    /\ pc = "cleaned"
    /\ Len(cleaned_df) > 0
    /\ second_df' = clean_data(cleaned_df)
    /\ pc' = "cleaned_twice"
    /\ calls' = calls + 1
    /\ UNCHANGED <<df, pads, cleaned_df, removed_count, cleaning_stats>>
    /\ UNCHANGED <<previous_df, object>>
    /\ UNCHANGED notCleanVars

\* one more call of clean_data on the same instance and the first df, at the
\* same instant, from cleaned_df = df.copy() to its return
CallAgain ==
    /\ pc \in {"cleaned_twice", "called_again"}
    /\ calls < MaxCalls
    /\ calls' = calls + 1
    /\ previous_df' = cleaned_df
    /\ \E deduplicated \in {_remove_duplicates(df)} :
       \E filled \in {_handle_missing_values(deduplicated)} :
       \E coerced \in {_validate_data_types(filled)} :
       \E repaired \in {_fix_data_inconsistencies(coerced)} :
       \E inliers \in {_remove_outliers(repaired)} :
       \E valid \in {_validate_business_rules(inliers)} :
          /\ cleaned_df' = reset_index(sort_values(valid))
          /\ removed_count' =
                 [duplicates |-> Len(df) - Len(deduplicated),
                  missing |-> Len(deduplicated) - Len(filled),
                  outliers |-> Len(repaired) - Len(inliers),
                  business |-> Len(inliers) - Len(valid)]
    /\ object' = new_object(new_object("df"))
    /\ df' = Caller(new_object("df"), cleaned_df')
    /\ cleaning_stats' = _capture_cleaning_stats_from_cleaner(df, cleaned_df')
    /\ pc' = "called_again"
    /\ UNCHANGED <<pads, second_df>>
    /\ UNCHANGED notCleanVars

NextClean ==
    \/ AddPad
    \/ AddRow
    \/ StartCleaning
    \/ RemoveDuplicates
    \/ HandleMissingValues
    \/ ValidateDataTypes
    \/ FixDataInconsistencies
    \/ RemoveOutliers
    \/ ValidateBusinessRules
    \/ SortAndReturn
    \/ CleanAgain
    \/ CallAgain

SpecClean == Init /\ [][NextClean]_vars

(***************************************************************************)
(* Properties of the cleaner.                                              *)
(***************************************************************************)
Rows(d) == {d[i] : i \in 1..Len(d)}

\* the row of the input a cleaned row comes from, with its cells coerced
InputRow(r) == _validate_data_types(df)[r.row_id]

\* both cells are numbers and the first is the larger or equal
Geq(c1, c2) == ~isna(c1) /\ ~isna(c2) /\ c1.v >= c2.v

NotPositive(c) == ~isna(c) /\ c.v <= 0

InFuture(c) == ~isna(c) /\ c.v > current_time

\* an input with no defect at all: typed cells, prices above 0 in the
\* order low <= open, close <= high, no date in the future, unique keys
SoundInput ==
    /\ \A r \in Rows(df) :
          /\ r.datetime.k = "iso" /\ r.datetime.v <= current_time
          /\ r.ticker \in {"A", "B"}
          /\ \A col \in {"open", "close", "high", "low", "volume"} :
                r[col].k = "num" /\ r[col].v > 0
          /\ r.high.v >= r.open.v /\ r.high.v >= r.close.v
          /\ r.low.v <= r.open.v /\ r.low.v <= r.close.v
    /\ \A i, j \in 1..Len(df) : i < j => ~SameKey(df[i], df[j])

\* C1: cleaning is idempotent: clean_data applied to the DataFrame that
\* clean_data returned gives back exactly that DataFrame.
C1_Idempotent == pc = "cleaned_twice" => second_df = cleaned_df

\* C1 on inputs with no defect: there only the IQR stage can remove a row.
C1_IdempotentOnSoundInput ==
    (pc = "cleaned_twice" /\ SoundInput) => second_df = cleaned_df

\* C2: from the repair stage on, high is the largest and low the smallest
\* of a row's prices wherever the prices are numbers, and in the DataFrame
\* clean_data returns every row has high >= open, high >= close,
\* low <= open and low <= close.
C2_OhlcRepaired ==
    /\ pc \in {"remove_outliers", "validate_business_rules", "sort_values"} =>
          \A r \in Rows(cleaned_df) :
             /\ ~isna(r.open) => (Geq(r.high, r.open) /\ Geq(r.open, r.low))
             /\ ~isna(r.close) => (Geq(r.high, r.close) /\ Geq(r.close, r.low))
    /\ pc \in {"cleaned", "cleaned_twice"} =>
          \A r \in Rows(cleaned_df) :
             /\ Geq(r.high, r.open) /\ Geq(r.high, r.close)
             /\ Geq(r.open, r.low) /\ Geq(r.close, r.low)

\* C2 witness: a row that came in with its high below its open or close,
\* or its low above them, is in the returned DataFrame.
C2_Witness ==
    /\ pc = "cleaned"
    /\ \E r \in Rows(cleaned_df) :
          \/ ~Geq(InputRow(r).high, InputRow(r).close)
          \/ ~Geq(InputRow(r).open, InputRow(r).low)

PositivePricesAndPast(d) ==
    \A r \in Rows(d) :
       /\ \A col \in {"open", "high", "low", "close"} :
             ~isna(r[col]) /\ r[col].v > 0
       /\ ~isna(r.volume) /\ r.volume.v >= 0
       /\ r.datetime.k = "ts" /\ r.datetime.v <= current_time

\* C3 as claimed: the returned rows have prices > 0, volume >= 0 and a
\* date not after the processing instant, and no returned row comes from
\* an input row with a price <= 0 or a date in the future.
C3_NoBadInputRowSurvives ==
    pc = "cleaned" =>
       /\ PositivePricesAndPast(cleaned_df)
       /\ \A r \in Rows(cleaned_df) :
             /\ \A col \in {"open", "high", "low", "close"} :
                   ~NotPositive(InputRow(r)[col])
             /\ ~InFuture(InputRow(r).datetime)

\* C3 amended: the returned rows have prices > 0, volume >= 0 and a date
\* not after the processing instant, and no returned row comes from an
\* input row with an open, close or low <= 0 or a date in the future
\* (a high <= 0 is repaired before the business rules are applied).
C3_BusinessRules ==
    pc = "cleaned" =>
       /\ PositivePricesAndPast(cleaned_df)
       /\ \A r \in Rows(cleaned_df) :
             /\ \A col \in {"open", "low", "close"} :
                   ~NotPositive(InputRow(r)[col])
             /\ ~InFuture(InputRow(r).datetime)

\* C3 witness: the business rules removed a row of an input that had a
\* price <= 0 or a date in the future, and other rows are returned.
C3_Witness ==
    /\ pc = "cleaned"
    /\ Len(cleaned_df) > 0
    /\ removed_count.business > 0
    /\ \E i \in 1..Len(df) :
          \/ NotPositive(_validate_data_types(df)[i].close)
          \/ InFuture(_validate_data_types(df)[i].datetime)

\* C4: of the input rows that have the same datetime and ticker, none but
\* the last in input order is in the DataFrame at any stage after the
\* duplicate resolution, whatever happens to the last one later.
C4_LastWins ==
    pc \notin {"input", "remove_duplicates"} =>
       \A i, j \in 1..Len(df) :
          (i < j /\ SameKey(df[i], df[j])) =>
             \A r \in Rows(cleaned_df) : r.row_id # i

\* C4 witness: two input rows have the same key and the later one is
\* in the returned DataFrame.
C4_Witness ==
    /\ pc = "cleaned"
    /\ \E i, j \in 1..Len(df) :
          /\ i < j /\ SameKey(df[i], df[j])
          /\ \E r \in Rows(cleaned_df) : r.row_id = j

\* C5: no two rows of the returned DataFrame have the same date and the
\* same upper-cased ticker.
C5_UniqueKey ==
    pc = "cleaned" =>
       \A i, j \in 1..Len(cleaned_df) :
          i < j => ~SameKey(cleaned_df[i], cleaned_df[j])

\* C10: each count of the cleaning report is the number of rows its stage
\* removed.
C10_ReportCounts ==
    pc = "cleaned" =>
       /\ cleaning_stats.duplicates_removed = removed_count.duplicates
       /\ cleaning_stats.null_values_removed = removed_count.missing
       /\ cleaning_stats.outliers_removed = removed_count.outliers
       /\ cleaning_stats.business_rules_violations = removed_count.business

\* C10, the scenario: when the only row removed is one with a close <= 0,
\* removed by the business rules, the report counts 1 business-rule
\* violation and 0 for every other stage.
C10_NegativeCloseScenario ==
    (/\ pc = "cleaned"
     /\ removed_count = [NoCounts EXCEPT !.business = 1]
     /\ \E i \in 1..Len(df) : NotPositive(_validate_data_types(df)[i].close))
    => cleaning_stats = [EmptyStats EXCEPT !.business_rules_violations = 1]

(***************************************************************************)
(* Values of the indicator columns.  A value is a record [k, n, d]:        *)
(*   "rat"  the fraction n / d, d > 0, in lowest terms                     *)
(*   "nan"  NaN, the null of a column                                      *)
(*   "inf"  plus (n = 1) or minus (n = -1) infinity                        *)
(*   "log"  log(n / d), "sqrt"  the square root of n / d                   *)
(*   "ewm"  an exponentially weighted mean whose exact numerator and       *)
(*          denominator are n and d modulo EwmModulus                      *)
(* The bars that come in hold integers.                                    *)
(***************************************************************************)
Abs(x) == IF x < 0 THEN 0 - x ELSE x

Sign(x) == IF x > 0 THEN 1 ELSE IF x < 0 THEN 0 - 1 ELSE 0

RECURSIVE Gcd(_, _)
Gcd(a, b) == IF b = 0 THEN a ELSE Gcd(b, a % b)

NaNValue == [k |-> "nan", n |-> 0, d |-> 0]

Inf(sign) == [k |-> "inf", n |-> sign, d |-> 0]

\* the float n / d; x / 0 is infinite and 0 / 0 is NaN
Rat(n, d) ==
    IF d = 0
    THEN IF n = 0 THEN NaNValue ELSE Inf(Sign(n))
    ELSE LET g == Gcd(Abs(n), Abs(d))
         IN  [k |-> "rat", n |-> (Sign(d) * n) \div g, d |-> Abs(d) \div g]

FromInt(x) == [k |-> "rat", n |-> x, d |-> 1]

isnull(v) == v.k = "nan"

Neg(a) == [a EXCEPT !.n = 0 - @]

Add(a, b) ==
    IF isnull(a) \/ isnull(b) THEN NaNValue
    ELSE IF a.k = "inf" /\ b.k = "inf"
         THEN IF a.n = b.n THEN a ELSE NaNValue
    ELSE IF a.k = "inf" THEN a
    ELSE IF b.k = "inf" THEN b
    ELSE LET g == Gcd(a.d, b.d)
         IN  Rat(a.n * (b.d \div g) + b.n * (a.d \div g), (a.d \div g) * b.d)

Sub(a, b) == Add(a, Neg(b))

\* (n1 / d1) * (n2 / d2) of fractions in lowest terms, the common factors
\* taken out before the products
Product(n1, d1, n2, d2) ==
    LET g1 == Gcd(Abs(n1), Abs(d2))
        g2 == Gcd(Abs(n2), Abs(d1))
    IN  IF n1 = 0 \/ n2 = 0 \/ d1 = 0 \/ d2 = 0 THEN Rat(n1 * n2, d1 * d2)
        ELSE Rat((n1 \div g1) * (n2 \div g2), (d1 \div g2) * (d2 \div g1))

Mul(a, b) ==
    IF isnull(a) \/ isnull(b) THEN NaNValue
    ELSE IF a.k = "inf" \/ b.k = "inf"
         THEN IF a.n = 0 \/ b.n = 0 THEN NaNValue
              ELSE Inf(Sign(a.n) * Sign(b.n))
    ELSE Product(a.n, a.d, b.n, b.d)

Div(a, b) ==
    IF isnull(a) \/ isnull(b) THEN NaNValue
    ELSE IF b.k = "inf"
         THEN IF a.k = "inf" THEN NaNValue ELSE FromInt(0)
    ELSE IF a.k = "inf"
         THEN Inf(IF b.n < 0 THEN 0 - a.n ELSE a.n)
    ELSE Product(a.n, a.d, b.d, b.n)

\* np.log(a) - np.log(b) of two integers
LogDiff(a, b) ==
    IF a < 0 \/ b < 0 \/ (a = 0 /\ b = 0) THEN NaNValue
    ELSE IF a = 0 THEN Inf(0 - 1)
    ELSE IF b = 0 THEN Inf(1)
    ELSE [k |-> "log", n |-> a \div Gcd(a, b), d |-> b \div Gcd(a, b)]

\* the square root of a fraction that is not negative
Sqrt(a) == IF a.k = "rat" THEN [a EXCEPT !.k = "sqrt"] ELSE a

\* a + sign * sqrt(q) for fractions a and q > 0
Surd(a, sign, q) == [k |-> "surd", a |-> a, s |-> sign, q |-> q]

(***************************************************************************)
(* What the five stages share: the loop over df['ticker'].unique(), the    *)
(* selection and sort of one ticker's rows, and pd.concat of the results.  *)
(* A column of one ticker is a sequence with one entry per row of td.      *)
(***************************************************************************)
\* a function on 1..n as the sequence of its values
AsSequence(f) == f \o <<>>

\* Series.unique(): the tickers in the order of their first row
tickers_of(d) ==
    LET first == SelectSeq(Indices(d),
                     LAMBDA i : \A j \in 1..(i - 1) : d[j].ticker # d[i].ticker)
    IN  AsSequence([t \in 1..Len(first) |-> d[first[t]].ticker])

\* sort_values('date'): rows already in date order stay as they are;
\* otherwise row i goes to the place that the number of rows before it in
\* date order gives (rows of one date keep their order)
sort_by_date(d) ==
    LET place(i) == 1 + Cardinality({j \in 1..Len(d) :
                        \/ d[j].date < d[i].date
                        \/ d[j].date = d[i].date /\ j < i})
    IN  IF \A i \in 1..(Len(d) - 1) : d[i].date <= d[i + 1].date THEN d
        ELSE AsSequence([k \in 1..Len(d) |->
                            d[CHOOSE i \in 1..Len(d) : place(i) = k]])

\* df.loc[df['ticker'] == ticker].sort_values('date')
ticker_data_unmasked(d, ticker) == sort_by_date(d)

ticker_data(d, ticker) ==
    sort_by_date(SelectSeq(d, LAMBDA r : r.ticker = ticker))

RECURSIVE concat(_)
concat(dfs) == IF dfs = <<>> THEN <<>> ELSE Head(dfs) \o concat(Tail(dfs))

\* one stage: Columns(td)[i] are the columns it adds to row i of td
per_ticker(d, Columns(_)) ==
    LET ts == tickers_of(d)
    IN  concat([t \in 1..Len(ts) |->
            LET td == ticker_data(d, ts[t])
                cols == Columns(td)
            IN  AsSequence([i \in 1..Len(td) |->
                               [td[i] EXCEPT !.ind = cols[i] @@ @]])])

Column(td, col) == AsSequence([i \in 1..Len(td) |-> td[i][col]])

IndColumn(td, col) == AsSequence([i \in 1..Len(td) |-> td[i].ind[col]])

\* The loops over the rows of one ticker carry a state from row to row.
\* Each is written as the pass over rows lo..hi from the state s before row
\* lo, giving the states after each row: the pass over the first half, then
\* the pass over the second half from where the first ended.
Middle(lo, hi) == (lo + hi) \div 2

\* the running sums of integers from s
RECURSIVE SumsFrom(_, _, _, _)
SumsFrom(xs, lo, hi, s) ==
    IF lo > hi THEN <<>>
    ELSE IF lo = hi THEN <<s + xs[lo]>>
    ELSE LET left == SumsFrom(xs, lo, Middle(lo, hi), s)
         IN  left \o SumsFrom(xs, Middle(lo, hi) + 1, hi, left[Len(left)])

\* 0, xs[1], xs[1] + xs[2], ...: entry i + 1 is the sum of the first i
RunningInts(xs) == <<0>> \o SumsFrom(xs, 1, Len(xs), 0)

\* the same of values, a NaN counting as 0
RECURSIVE ValueSumsFrom(_, _, _, _)
ValueSumsFrom(xs, lo, hi, s) ==
    IF lo > hi THEN <<>>
    ELSE IF lo = hi THEN <<IF isnull(xs[lo]) THEN s ELSE Add(s, xs[lo])>>
    ELSE LET left == ValueSumsFrom(xs, lo, Middle(lo, hi), s)
         IN  left \o ValueSumsFrom(xs, Middle(lo, hi) + 1, hi, left[Len(left)])

RunningValues(xs) == <<FromInt(0)>> \o ValueSumsFrom(xs, 1, Len(xs), FromInt(0))

NoNaN(xs, lo, hi) == \A j \in lo..hi : ~isnull(xs[j])

\* Series.rolling(window=p).mean() of a column of integers
rolling_mean_min_periods_1(xs, p) ==
    LET run == RunningInts(xs)
    IN  [i \in 1..Len(xs) |->
            IF i < p THEN Rat(run[i + 1], i)
            ELSE Rat(run[i + 1] - run[i - p + 1], p)]

rolling_mean(xs, p) ==
    LET run == RunningInts(xs)
    IN  [i \in 1..Len(xs) |->
            IF i < p THEN NaNValue
            ELSE Rat(run[i + 1] - run[i - p + 1], p)]

\* the same of a column of values: NaN while the window holds a NaN
rolling_mean_values(xs, p) ==
    LET run == RunningValues(xs)
    IN  [i \in 1..Len(xs) |->
            IF i < p \/ ~NoNaN(xs, i - p + 1, i) THEN NaNValue
            ELSE Div(Sub(run[i + 1], run[i - p + 1]), FromInt(p))]

(***************************************************************************)
(* TechnicalIndicators._calculate_returns                                  *)
(***************************************************************************)
\* Series.pct_change()
pct_change_fill_0(xs) ==
    [i \in 1..Len(xs) |->
        IF i = 1 THEN FromInt(0) ELSE Sub(Rat(xs[i], xs[i - 1]), FromInt(1))]

pct_change(xs) ==
    [i \in 1..Len(xs) |->
        IF i = 1 THEN NaNValue ELSE Sub(Rat(xs[i], xs[i - 1]), FromInt(1))]

\* Series.apply(np.log).diff()
log_diff(xs) ==
    [i \in 1..Len(xs) |->
        IF i = 1 THEN NaNValue ELSE LogDiff(xs[i], xs[i - 1])]

\* Series.cumsum(): a NaN stays NaN and is skipped by the sum
cumsum(xs) ==
    LET run == RunningValues(xs)
    IN  [i \in 1..Len(xs) |-> IF isnull(xs[i]) THEN NaNValue ELSE run[i + 1]]

\* close.iloc[-1] / close.iloc[0] - 1, written to every row
total_return(close) ==
    [i \in 1..Len(close) |->
        Sub(Rat(close[Len(close)], close[1]), FromInt(1))]

returns_columns(td) ==
    LET close == Column(td, "close")
        daily_return == pct_change(close)
        daily_log_return == log_diff(close)
        cumulative_return == cumsum(daily_return)
        total == total_return(close)
    IN  [i \in 1..Len(td) |->
            ("daily_return" :> daily_return[i])
            @@ ("daily_log_return" :> daily_log_return[i])
            @@ ("cumulative_return" :> cumulative_return[i])
            @@ ("total_return" :> total[i])]

_calculate_returns(d) == per_ticker(d, returns_columns)

(***************************************************************************)
(* TechnicalIndicators._calculate_moving_averages                          *)
(***************************************************************************)
periods == <<5, 10, 20, 50, 100, 200>>

EwmModulus == 46337

MulMod(a, b) == (a * b) % EwmModulus

\* the difference of two fractions kept modulo EwmModulus
FractionSub(a, b) ==
    [k |-> "ewm",
     n |-> (MulMod(a.n, b.d) + MulMod(EwmModulus - b.n, a.d)) % EwmModulus,
     d |-> MulMod(a.d, b.d)]

\* Series.ewm(span=p).mean() (adjust=True): at row i the weighted mean of
\* xs[1..i] with the weights ((p - 1) / (p + 1)) ^ (i - j).  Numerator and
\* denominator, scaled by (p + 1) ^ (i - 1), outgrow the integers and are
\* kept modulo EwmModulus.  s = <<numerator, denominator, scale>>.
EwmStep(s, x, p) ==
    LET w == (s[3] * (p + 1)) % EwmModulus
    IN  << (x * w + (p - 1) * s[1]) % EwmModulus,
           (w + (p - 1) * s[2]) % EwmModulus,
           w >>

RECURSIVE EwmStates(_, _, _, _, _)
EwmStates(xs, p, lo, hi, s) ==
    IF lo > hi THEN <<>>
    ELSE IF lo = hi THEN <<EwmStep(s, xs[lo], p)>>
    ELSE LET left == EwmStates(xs, p, lo, Middle(lo, hi), s)
         IN  left \o EwmStates(xs, p, Middle(lo, hi) + 1, hi, left[Len(left)])

ewm_mean(xs, p) ==
    LET first == <<xs[1] % EwmModulus, 1, 1>>
        states == <<first>> \o EwmStates(xs, p, 2, Len(xs), first)
    IN  [i \in 1..Len(xs) |->
            [k |-> "ewm", n |-> states[i][1], d |-> states[i][2]]]

RECURSIVE MergeAll(_)
MergeAll(fs) == IF fs = <<>> THEN <<>> ELSE Head(fs) @@ MergeAll(Tail(fs))

moving_average_columns(td) ==
    LET close == Column(td, "close")
        sma == AsSequence([j \in 1..Len(periods) |->
                              rolling_mean(close, periods[j])])
        ema == AsSequence([j \in 1..Len(periods) |->
                              ewm_mean(close, periods[j])])
    IN  [i \in 1..Len(td) |->
            MergeAll([j \in 1..Len(periods) |->
                (("sma_" \o ToString(periods[j])) :> sma[j][i])
                @@ (("ema_" \o ToString(periods[j])) :> ema[j][i])
                @@ (("price_vs_sma_" \o ToString(periods[j]) \o "_pct") :>
                       Mul(Div(Sub(FromInt(close[i]), sma[j][i]), sma[j][i]),
                           FromInt(100)))])]

_calculate_moving_averages(d) == per_ticker(d, moving_average_columns)

(***************************************************************************)
(* TechnicalIndicators._calculate_volatility_indicators                    *)
(* (volatility_{p}d, tr, atr_14 and the Bollinger bands)                   *)
(***************************************************************************)
volatility_periods == <<5, 10, 20, 30>>

Square(a) == Mul(a, a)

\* Series.rolling(window=p).std(): the sample standard deviation of the
\* window, NaN while the window holds a NaN
rolling_std(xs, p) ==
    LET run == RunningValues(xs)
        run2 == RunningValues([j \in 1..Len(xs) |-> Square(xs[j])])
    IN  [i \in 1..Len(xs) |->
            IF i < p \/ ~NoNaN(xs, i - p + 1, i) THEN NaNValue
            ELSE LET sum == Sub(run[i + 1], run[i - p + 1])
                     squares == Sub(run2[i + 1], run2[i - p + 1])
                 IN  Sqrt(Div(Sub(Mul(FromInt(p), squares), Square(sum)),
                              FromInt(p * (p - 1))))]

\* std * np.sqrt(252)
annualized(v) ==
    IF v.k = "sqrt" THEN Sqrt(Mul([v EXCEPT !.k = "rat"], FromInt(252))) ELSE v

true_range(td) ==
    [i \in 1..Len(td) |->
        IF i = 1 THEN td[i].high - td[i].low
        ELSE SetMax({ td[i].high - td[i].low,
                      Abs(td[i].high - td[i - 1].close),
                      Abs(td[i].low - td[i - 1].close) })]

\* bb_middle + (bb_std * 2) and bb_middle - (bb_std * 2)
bb_band(middle, std, sign) ==
    IF isnull(middle) \/ isnull(std) THEN NaNValue
    ELSE IF std.n = 0 THEN middle
    ELSE Surd(middle, sign, Mul(FromInt(4), [std EXCEPT !.k = "rat"]))

\* (bb_upper - bb_lower) / bb_middle, which is 4 * bb_std / bb_middle
bb_width(middle, std) ==
    IF isnull(middle) \/ isnull(std) THEN NaNValue
    ELSE IF std.n = 0 THEN Div(FromInt(0), middle)
    ELSE IF middle.n = 0 THEN Inf(1)
    ELSE Surd(FromInt(0), Sign(middle.n),
              Div(Mul(FromInt(16), [std EXCEPT !.k = "rat"]), Square(middle)))

\* (close - bb_lower) / (bb_upper - bb_lower), which is
\* 1 / 2 + (close - bb_middle) / (4 * bb_std)
bb_position(close, middle, std) ==
    IF isnull(middle) \/ isnull(std) THEN NaNValue
    ELSE IF std.n = 0 THEN Div(Sub(FromInt(close), middle), FromInt(0))
    ELSE IF Sub(FromInt(close), middle).n = 0 THEN Rat(1, 2)
    ELSE Surd(Rat(1, 2), Sign(Sub(FromInt(close), middle).n),
              Div(Square(Sub(FromInt(close), middle)),
                  Mul(FromInt(16), [std EXCEPT !.k = "rat"])))

volatility_columns(td) ==
    LET daily_return == IndColumn(td, "daily_return")
        std == AsSequence([j \in 1..Len(volatility_periods) |->
                   rolling_std(daily_return, volatility_periods[j])])
        tr == true_range(td)
        atr_14 == rolling_mean(tr, 14)
        close == Column(td, "close")
        bb_middle == rolling_mean(close, 20)
        bb_std == rolling_std([i \in 1..Len(td) |-> FromInt(close[i])], 20)
    IN  [i \in 1..Len(td) |->
            MergeAll([j \in 1..Len(volatility_periods) |->
                ("volatility_" \o ToString(volatility_periods[j]) \o "d") :>
                    annualized(std[j][i])])
            @@ ("tr" :> FromInt(tr[i]))
            @@ ("atr_14" :> atr_14[i])
            @@ ("bb_middle" :> bb_middle[i])
            @@ ("bb_upper" :> bb_band(bb_middle[i], bb_std[i], 1))
            @@ ("bb_lower" :> bb_band(bb_middle[i], bb_std[i], 0 - 1))
            @@ ("bb_width" :> bb_width(bb_middle[i], bb_std[i]))
            @@ ("bb_position" :> bb_position(close[i], bb_middle[i], bb_std[i]))]

_calculate_volatility_indicators(d) == per_ticker(d, volatility_columns)

(***************************************************************************)
(* TechnicalIndicators._calculate_momentum_indicators                      *)
(* (rsi_14, rsi_21, macd, stoch_k, stoch_d and williams_r)                 *)
(***************************************************************************)
\* Series.rolling(window=p).min() and .max() of a column of integers;
\* 0 stands in where the window is not full and the result is NaN
rolling_min(xs, p) ==
    [i \in 1..Len(xs) |->
        IF i < p THEN 0 ELSE SetMin({xs[j] : j \in (i - p + 1)..i})]

rolling_max(xs, p) ==
    [i \in 1..Len(xs) |->
        IF i < p THEN 0 ELSE SetMax({xs[j] : j \in (i - p + 1)..i})]

\* delta.where(delta > 0, 0) and -delta.where(delta < 0, 0): the first
\* row's delta is NaN, which neither comparison accepts
gains(close) ==
    [i \in 1..Len(close) |->
        IF i > 1 /\ close[i] > close[i - 1] THEN close[i] - close[i - 1] ELSE 0]

losses(close) ==
    [i \in 1..Len(close) |->
        IF i > 1 /\ close[i] < close[i - 1] THEN close[i - 1] - close[i] ELSE 0]

\* 100 - (100 / (1 + rs))
index_of(rs) == Sub(FromInt(100), Div(FromInt(100), Add(FromInt(1), rs)))

rsi(close, window) ==
    LET gain == rolling_mean(gains(close), window)
        loss == rolling_mean(losses(close), window)
    IN  [i \in 1..Len(close) |-> index_of(Div(gain[i], loss[i]))]

\* Series.ewm(span=p).mean() of a column of fractions kept modulo
\* EwmModulus.  s = <<numerator, denominator of the numerator, sum of the
\* weights, scale>>.
SignalStep(s, x, p) ==
    LET w == MulMod(s[4], p + 1)
    IN  << (MulMod(MulMod(w, x.n), s[2]) + MulMod(MulMod(p - 1, s[1]), x.d))
               % EwmModulus,
           MulMod(s[2], x.d),
           (w + MulMod(p - 1, s[3])) % EwmModulus,
           w >>

RECURSIVE SignalStates(_, _, _, _, _)
SignalStates(xs, p, lo, hi, s) ==
    IF lo > hi THEN <<>>
    ELSE IF lo = hi THEN <<SignalStep(s, xs[lo], p)>>
    ELSE LET left == SignalStates(xs, p, lo, Middle(lo, hi), s)
         IN  left \o SignalStates(xs, p, Middle(lo, hi) + 1, hi, left[Len(left)])

ewm_mean_of_fractions(xs, p) ==
    LET first == <<xs[1].n, xs[1].d, 1, 1>>
        states == <<first>> \o SignalStates(xs, p, 2, Len(xs), first)
    IN  [i \in 1..Len(xs) |->
            [k |-> "ewm", n |-> states[i][1],
             d |-> MulMod(states[i][2], states[i][3])]]

momentum_columns(td) ==
    LET close == Column(td, "close")
        rsi_14 == rsi(close, 14)
        rsi_21 == rsi(close, 21)
        ema_12 == ewm_mean(close, 12)
        ema_26 == ewm_mean(close, 26)
        macd == AsSequence([i \in 1..Len(td) |->
                               FractionSub(ema_12[i], ema_26[i])])
        macd_signal == ewm_mean_of_fractions(macd, 9)
        lowest_low == rolling_min(Column(td, "low"), 14)
        highest_high == rolling_max(Column(td, "high"), 14)
        stoch_k == [i \in 1..Len(td) |->
                       IF i < 14 THEN NaNValue
                       ELSE Mul(FromInt(100),
                                Rat(td[i].close - lowest_low[i],
                                    highest_high[i] - lowest_low[i]))]
        stoch_d == rolling_mean_values(stoch_k, 3)
        williams_r == [i \in 1..Len(td) |->
                          IF i < 14 THEN NaNValue
                          ELSE Mul(FromInt(0 - 100),
                                   Rat(highest_high[i] - td[i].close,
                                       highest_high[i] - lowest_low[i]))]
    IN  [i \in 1..Len(td) |->
            ("rsi_14" :> rsi_14[i])
            @@ ("rsi_21" :> rsi_21[i])
            @@ ("macd" :> macd[i])
            @@ ("macd_signal" :> macd_signal[i])
            @@ ("macd_histogram" :> FractionSub(macd[i], macd_signal[i]))
            @@ ("stoch_k" :> stoch_k[i])
            @@ ("stoch_d" :> stoch_d[i])
            @@ ("williams_r" :> williams_r[i])]

_calculate_momentum_indicators(d) == per_ticker(d, momentum_columns)

(***************************************************************************)
(* TechnicalIndicators._calculate_volume_indicators                        *)
(* (volume_sma_20, volume_ratio, obv, vpt and mfi)                         *)
(***************************************************************************)
obv_append_flat_adds(td, i, last) ==
    IF td[i].close >= td[i - 1].close THEN last + td[i].volume
    ELSE last - td[i].volume

\* obv = [volume.iloc[0]] and one append per later row
obv_append(td, i, last) ==
    IF td[i].close > td[i - 1].close THEN last + td[i].volume
    ELSE IF td[i].close < td[i - 1].close THEN last - td[i].volume
    ELSE last

RECURSIVE obv_list(_, _, _, _)
obv_list(td, lo, hi, last) ==
    IF lo > hi THEN <<>>
    ELSE IF lo = hi THEN <<obv_append(td, lo, last)>>
    ELSE LET left == obv_list(td, lo, Middle(lo, hi), last)
         IN  left \o obv_list(td, Middle(lo, hi) + 1, hi, left[Len(left)])

\* vpt = [0] and one append per later row
vpt_append(td, i, last) ==
    Add(last, Mul(FromInt(td[i].volume), td[i].ind["daily_return"]))

RECURSIVE vpt_list(_, _, _, _)
vpt_list(td, lo, hi, last) ==
    IF lo > hi THEN <<>>
    ELSE IF lo = hi THEN <<vpt_append(td, lo, last)>>
    ELSE LET left == vpt_list(td, lo, Middle(lo, hi), last)
         IN  left \o vpt_list(td, Middle(lo, hi) + 1, hi, left[Len(left)])

\* three times the typical price (high + low + close) / 3
typical_price_x3(td) ==
    AsSequence([i \in 1..Len(td) |-> td[i].high + td[i].low + td[i].close])

\* three times positive_flow and negative_flow: the money flow of the rows
\* whose typical price rose, or fell, against the row before
positive_flow_x3(td) ==
    LET tp == typical_price_x3(td)
    IN  [i \in 1..Len(td) |->
            IF i > 1 /\ tp[i] > tp[i - 1] THEN tp[i] * td[i].volume ELSE 0]

negative_flow_x3(td) ==
    LET tp == typical_price_x3(td)
    IN  [i \in 1..Len(td) |->
            IF i > 1 /\ tp[i] < tp[i - 1] THEN tp[i] * td[i].volume ELSE 0]

\* Series.rolling(window=p).sum() of a column given as three times its values
rolling_sum_x3(xs, p) ==
    LET run == RunningInts(xs)
    IN  [i \in 1..Len(xs) |->
            IF i < p THEN NaNValue ELSE Rat(run[i + 1] - run[i - p + 1], 3)]

mfi(td) ==
    LET positive_mf == rolling_sum_x3(positive_flow_x3(td), 14)
        negative_mf == rolling_sum_x3(negative_flow_x3(td), 14)
    IN  [i \in 1..Len(td) |-> index_of(Div(positive_mf[i], negative_mf[i]))]

volume_columns(td) ==
    LET volume_sma_20 == rolling_mean(Column(td, "volume"), 20)
        money_flow_index == mfi(td)
        obv == <<td[1].volume>> \o obv_list(td, 2, Len(td), td[1].volume)
        vpt == <<FromInt(0)>> \o vpt_list(td, 2, Len(td), FromInt(0))
    IN  [i \in 1..Len(td) |->
            ("volume_sma_20" :> volume_sma_20[i])
            @@ ("volume_ratio" :> Div(FromInt(td[i].volume), volume_sma_20[i]))
            @@ ("obv" :> FromInt(obv[i]))
            @@ ("vpt" :> vpt[i])
            @@ ("mfi" :> money_flow_index[i])]

_calculate_volume_indicators(d) == per_ticker(d, volume_columns)

(***************************************************************************)
(* TechnicalIndicators.calculate_all_indicators                            *)
(***************************************************************************)
dropna_any(d) ==
    SelectSeq(d, LAMBDA r : \A c \in DOMAIN r.ind : ~isnull(r.ind[c]))

\* dropna(subset=indicator_columns, how='all')
dropna_all(d) ==
    SelectSeq(d, LAMBDA r :
        DOMAIN r.ind = {} \/ \E c \in DOMAIN r.ind : ~isnull(r.ind[c]))

calculate_all_indicators(d) ==
    dropna_all(
        _calculate_volume_indicators(
            _calculate_momentum_indicators(
                _calculate_volatility_indicators(
                    _calculate_moving_averages(
                        _calculate_returns(d))))))

(***************************************************************************)
(* The inputs of calculate_all_indicators: cleaned bars, sorted by date    *)
(* and ticker.  A history of ticker A, as long as a window less one bar,   *)
(* is loaded at once or not at all; then bars of A and B arrive one at a   *)
(* time, each dated one day after the last bar of its ticker, and the      *)
(* indicators are calculated again after each.                             *)
(***************************************************************************)
Bar(dt, t, o, h, l, c, v) ==
    [date |-> dt, ticker |-> t, open |-> o, high |-> h, low |-> l,
     close |-> c, volume |-> v, ind |-> <<>>]

HistoryBar(i) ==
    Bar(i, "A", 1 + (i % 3), 2 + (i % 3), 1 + (i % 3), 1 + (i % 3), 1 + (i % 2))

HistoryLengths == {periods[j] - 1 : j \in 1..Len(periods)}

\* degenerate histories: a ticker that did not trade (one price, no volume)
\* for as long as the windows of 20 bars, and a ticker C whose price doubled
\* on each of 15 bars, a frame to which no bar is appended
FlatBar(i) == Bar(i, "A", 2, 2, 2, 2, 0)

FlatLength == 20

RisingBar(i) == Bar(i, "C", 2 ^ i, 2 ^ i, 2 ^ i, 2 ^ i, 1)

RisingLength == 15

\* <<open, high, low, close, volume>>
BarChoices == { <<2, 2, 2, 2, 0>>, <<2, 5, 1, 4, 3>> }

LastDate(d, t) ==
    IF \E i \in 1..Len(d) : d[i].ticker = t
    THEN SetMax({d[i].date : i \in {j \in 1..Len(d) : d[j].ticker = t}})
    ELSE 0

BarLess(r1, r2) ==
    \/ r1.date < r2.date
    \/ r1.date = r2.date /\ TickerRank(r1.ticker) < TickerRank(r2.ticker)

\* the bar x put before the first bar of s that comes after it
InsertBar(x, s) ==
    LET after == {i \in 1..Len(s) : BarLess(x, s[i])}
        at == IF after = {} THEN Len(s) + 1 ELSE SetMin(after)
    IN  SubSeq(s, 1, at - 1) \o <<x>> \o SubSeq(s, at, Len(s))

LoadHistory ==
    /\ ipc = "input"
    /\ bars = <<>>
    /\ \E h \in HistoryLengths :
          bars' = [i \in 1..h |-> HistoryBar(i)]
    /\ enriched_df' = bars'
    /\ ipc' = "calculate_returns"
    /\ UNCHANGED <<prev_enriched, appended>>
    /\ UNCHANGED notIndVars

LoadDegenerateHistory ==
    /\ ipc = "input"
    /\ bars = <<>>
    /\ \/ bars' = [i \in 1..FlatLength |-> FlatBar(i)]
       \/ bars' = [i \in 1..RisingLength |-> RisingBar(i)]
    /\ enriched_df' = bars'
    /\ ipc' = "calculate_returns"
    /\ UNCHANGED <<prev_enriched, appended>>
    /\ UNCHANGED notIndVars

AppendBar ==
    /\ \/ ipc = "input" /\ bars = <<>>
       \/ ipc = "done"
    /\ appended < MaxBars
    /\ \A i \in 1..Len(bars) : bars[i].ticker # "C"
    /\ \E t \in {"A", "B"}, b \in BarChoices :
          bars' = InsertBar(
                      Bar(LastDate(bars, t) + 1, t, b[1], b[2], b[3], b[4], b[5]),
                      bars)
    /\ appended' = appended + 1
    /\ prev_enriched' = enriched_df
    /\ enriched_df' = bars'
    /\ ipc' = "calculate_returns"
    /\ UNCHANGED notIndVars

CalculateReturns ==
    /\ ipc = "calculate_returns"
    /\ enriched_df' = _calculate_returns(enriched_df)
    /\ ipc' = "calculate_moving_averages"
    /\ UNCHANGED <<bars, prev_enriched, appended>>
    /\ UNCHANGED notIndVars

CalculateMovingAverages ==
    /\ ipc = "calculate_moving_averages"
    /\ enriched_df' = _calculate_moving_averages(enriched_df)
    /\ ipc' = "calculate_volatility_indicators"
    /\ UNCHANGED <<bars, prev_enriched, appended>>
    /\ UNCHANGED notIndVars

CalculateVolatilityIndicators ==
    /\ ipc = "calculate_volatility_indicators"
    /\ enriched_df' = _calculate_volatility_indicators(enriched_df)
    /\ ipc' = "calculate_momentum_indicators"
    /\ UNCHANGED <<bars, prev_enriched, appended>>
    /\ UNCHANGED notIndVars

CalculateMomentumIndicators ==
    /\ ipc = "calculate_momentum_indicators"
    /\ enriched_df' = _calculate_momentum_indicators(enriched_df)
    /\ ipc' = "calculate_volume_indicators"
    /\ UNCHANGED <<bars, prev_enriched, appended>>
    /\ UNCHANGED notIndVars

\* the last stage, the dropna that follows it and the return
CalculateVolumeIndicators ==
    /\ ipc = "calculate_volume_indicators"
    /\ enriched_df' = dropna_all(_calculate_volume_indicators(enriched_df))
    /\ ipc' = "done"
    /\ UNCHANGED <<bars, prev_enriched, appended>>
    /\ UNCHANGED notIndVars

NextInd ==
    \/ LoadHistory
    \/ LoadDegenerateHistory
    \/ AppendBar
    \/ CalculateReturns
    \/ CalculateMovingAverages
    \/ CalculateVolatilityIndicators
    \/ CalculateMomentumIndicators
    \/ CalculateVolumeIndicators

SpecInd == Init /\ [][NextInd]_vars


(***************************************************************************)
(* Properties of calculate_all_indicators.  bars is the input of the last  *)
(* call, a cleaned frame (prices positive, one row per ticker and date);   *)
(* enriched_df is its output once ipc = "done"; prev_enriched is the       *)
(* output of the call before, whose input was bars without the bar that    *)
(* was appended last, a bar dated after every bar of its ticker.           *)
(***************************************************************************)
OfTicker(d, t) == SelectSeq(d, LAMBDA r : r.ticker = t)

Tickers(d) == {d[i].ticker : i \in 1..Len(d)}

RECURSIVE SumOfCloses(_, _, _)
SumOfCloses(d, lo, hi) ==
    IF lo > hi THEN 0
    ELSE IF lo = hi THEN d[lo].close
    ELSE SumOfCloses(d, lo, Middle(lo, hi)) + SumOfCloses(d, Middle(lo, hi) + 1, hi)

\* the columns of the row of ticker t and date dt are the same in d and e
SameIndicators(d, e, t, dt, columns) ==
    \E i \in 1..Len(d), j \in 1..Len(e) :
        /\ d[i].ticker = t /\ d[i].date = dt
        /\ e[j].ticker = t /\ e[j].date = dt
        /\ \A c \in columns : d[i].ind[c] = e[j].ind[c]

\* C6: no look-ahead.  Every indicator column of every row emitted before a
\* later bar was appended has the same value after the bar was appended,
\* total_return included.
C6_NoLookAhead ==
    (ipc = "done" /\ prev_enriched # <<>>) =>
        \A i \in 1..Len(prev_enriched) :
            SameIndicators(prev_enriched, enriched_df,
                           prev_enriched[i].ticker, prev_enriched[i].date,
                           DOMAIN prev_enriched[i].ind)

\* C6, the part that the code keeps: every indicator column other than
\* total_return is unchanged by appending a later bar.
C6_NoLookAheadButTotalReturn ==
    (ipc = "done" /\ prev_enriched # <<>>) =>
        \A i \in 1..Len(prev_enriched) :
            SameIndicators(prev_enriched, enriched_df,
                           prev_enriched[i].ticker, prev_enriched[i].date,
                           DOMAIN prev_enriched[i].ind \ {"total_return"})

\* C7: per-ticker isolation.  The rows emitted for a ticker are the rows
\* emitted when every row of the other tickers is removed from the input.
C7_PerTickerIsolation ==
    ipc = "done" =>
        \A t \in Tickers(bars) :
            OfTicker(enriched_df, t) = calculate_all_indicators(OfTicker(bars, t))

\* C7 witness: an output for two tickers, one of them with enough bars for
\* the windows of 14 and 20 to be full.
C7_Witness ==
    /\ ipc = "done"
    /\ Tickers(bars) = {"A", "B"}
    /\ Len(OfTicker(enriched_df, "A")) > 20
    /\ Len(OfTicker(enriched_df, "B")) > 1

\* C8: window-null boundary.  For a ticker with N bars and every p of
\* periods, sma_p is null on bars 1..p-1 and is the mean of the trailing p
\* closes on bars p..N (so null on all N bars when N < p).
C8_WindowNullBoundary ==
    ipc = "done" =>
        \A t \in Tickers(bars) :
            LET td == OfTicker(enriched_df, t)
            IN  /\ Len(td) = Len(OfTicker(bars, t))
                /\ \A j \in 1..Len(periods), i \in 1..Len(td) :
                      LET sma == td[i].ind["sma_" \o ToString(periods[j])]
                      IN  IF i < periods[j] THEN isnull(sma)
                          ELSE /\ sma.k = "rat"
                               /\ sma.n * periods[j]
                                    = sma.d * SumOfCloses(td, i - periods[j] + 1, i)

\* C8 witness: a ticker with as many bars as the longest window, next to a
\* ticker with fewer bars than the shortest.
C8_Witness ==
    /\ ipc = "done"
    /\ Len(OfTicker(enriched_df, "A")) >= periods[Len(periods)]
    /\ Len(OfTicker(enriched_df, "B")) \in 1..(periods[1] - 1)

\* C9: daily_return and daily_log_return are null on the first bar of a
\* ticker and not null on every later bar, where daily_return is
\* close[i] / close[i-1] - 1 against the previous bar of the same ticker; a
\* ticker with 3 bars has 3 output rows.
C9_DailyReturn ==
    ipc = "done" =>
        \A t \in Tickers(bars) :
            LET td == OfTicker(enriched_df, t)
            IN  /\ Len(OfTicker(bars, t)) = 3 => Len(td) = 3
                /\ \A i \in 1..Len(td) :
                      LET r == td[i].ind["daily_return"]
                          l == td[i].ind["daily_log_return"]
                      IN  IF i = 1 THEN isnull(r) /\ isnull(l)
                          ELSE /\ ~isnull(r) /\ ~isnull(l)
                               /\ r.k = "rat"
                               /\ r.n * td[i - 1].close
                                    = r.d * (td[i].close - td[i - 1].close)

\* C9 witness: a ticker with exactly 3 bars whose closes differ, beside
\* another ticker.
C9_Witness ==
    /\ ipc = "done"
    /\ Len(OfTicker(bars, "B")) = 3
    /\ Len(OfTicker(enriched_df, "B")) = 3
    /\ OfTicker(enriched_df, "B")[2].close # OfTicker(enriched_df, "B")[1].close
    /\ "A" \in Tickers(bars)


\* the rows lo..i of td, the window of p bars that ends at bar i
Window(i, p) == (i - p + 1)..i

\* the average loss over the window is 0: no close of the window is below
\* the close of the bar before it
NoLoss(td, i, p) ==
    \A j \in Window(i, p) : j = 1 \/ td[j].close >= td[j - 1].close

\* C11: RSI degenerate case.  On every bar where the 14-bar window is full
\* and the average loss over it is 0, rsi_14 is the sentinel 100, neither
\* NaN nor infinite.
C11_RsiSentinel ==
    ipc = "done" =>
        \A t \in Tickers(bars) :
            LET td == OfTicker(enriched_df, t)
            IN  \A i \in 14..Len(td) :
                    NoLoss(td, i, 14) => td[i].ind["rsi_14"] = FromInt(100)

\* C11, the part that the code keeps: after 14 bars of which each closed
\* above the one before, rsi_14 is 100.
C11_RsiSentinelWhenRising ==
    ipc = "done" =>
        \A t \in Tickers(bars) :
            LET td == OfTicker(enriched_df, t)
            IN  \A i \in 15..Len(td) :
                    (\A j \in Window(i, 14) : td[j].close > td[j - 1].close)
                        => td[i].ind["rsi_14"] = FromInt(100)

\* the sum of the negative money flow over the 14 bars that end at bar i is 0
NoNegativeFlow(td, i) ==
    \A j \in Window(i, 14) :
        \/ j = 1
        \/ td[j].high + td[j].low + td[j].close
             >= td[j - 1].high + td[j - 1].low + td[j - 1].close
        \/ td[j].volume = 0

\* the denominators of the indicators of bar i that are 0
ZeroDenominator(td, i) ==
    [stoch_k |-> i >= 14 /\ SetMax({td[j].high : j \in Window(i, 14)})
                              = SetMin({td[j].low : j \in Window(i, 14)}),
     williams_r |-> i >= 14 /\ SetMax({td[j].high : j \in Window(i, 14)})
                                 = SetMin({td[j].low : j \in Window(i, 14)}),
     bb_position |-> i >= 20 /\ \A j \in Window(i, 20) : td[j].close = td[i].close,
     bb_width |-> i >= 20 /\ \A j \in Window(i, 20) : td[j].close = 0,
     volume_ratio |-> i >= 20 /\ \A j \in Window(i, 20) : td[j].volume = 0,
     mfi |-> i >= 14 /\ NoNegativeFlow(td, i)]

NullOnZeroDenominator(columns) ==
    ipc = "done" =>
        \A t \in Tickers(bars) :
            LET td == OfTicker(enriched_df, t)
            IN  \A i \in 1..Len(td), c \in columns :
                    ZeroDenominator(td, i)[c] => isnull(td[i].ind[c])

\* C12: zero denominators yield null.  On every bar where the denominator
\* of stoch_k, williams_r, bb_position, bb_width, volume_ratio or mfi is 0,
\* that indicator is null.
C12_ZeroDenominatorIsNull ==
    NullOnZeroDenominator({"stoch_k", "williams_r", "bb_position", "bb_width",
                           "volume_ratio", "mfi"})

\* C12, the part that the code keeps: every one of them but mfi.
C12_ZeroDenominatorIsNullButMfi ==
    NullOnZeroDenominator({"stoch_k", "williams_r", "bb_position", "bb_width",
                           "volume_ratio"})

\* a bar on which one of these denominators is 0 was computed
ZeroDenominatorSeen(columns) ==
    /\ ipc = "done"
    /\ \A c \in columns :
          \E i \in 1..Len(enriched_df) :
              ZeroDenominator(OfTicker(enriched_df, enriched_df[i].ticker),
                              Len(OfTicker(enriched_df, enriched_df[i].ticker)))[c]


(***************************************************************************)
(* The exceptions of the two entry points.  Which columns a frame has, and *)
(* whether it has rows, decides whether a call raises; of a frame only its *)
(* shape is kept here: its columns, the number of its rows that have a     *)
(* ticker and the number of its rows whose ticker is null.  How many rows  *)
(* a filter keeps depends on the values, so a filter may keep any number.  *)
(***************************************************************************)
Frame(columns, rows, null_rows) ==
    [columns |-> columns, rows |-> rows, null_rows |-> null_rows]

IsEmpty(f) == f.rows + f.null_rows = 0

Values == {"ticker", "open", "close", "high", "low", "volume"}

\* the frames a caller may hand over: the date column under either name or
\* both, every column present or one of them missing
FrameChoices ==
    { Frame(c, n, k) :
        c \in { (dates \cup Values) \ missing :
                  dates \in {{"date"}, {"datetime"}, {"date", "datetime"}},
                  missing \in {{}} \cup {{x} : x \in Values \cup {"date", "datetime"}} },
        n \in 0..MaxFrameRows, k \in 0..1 }

Raises(f, exception) == {[raised |-> exception, frame |-> f]}

Returns(frames) == {[raised |-> "none", frame |-> f] : f \in frames}

\* the results of a filter: any number of the rows
Filtered(f) == {[f EXCEPT !.rows = n] : n \in 0..f.rows}

\* drop_duplicates(subset=['datetime', 'ticker'], keep='last')
RemoveDuplicatesOn(f) ==
    IF ~({"datetime", "ticker"} \subseteq f.columns) THEN Raises(f, "KeyError")
    ELSE Returns({[f EXCEPT !.rows = n] :
                     n \in IF f.rows = 0 THEN {0} ELSE 1..f.rows})

\* dropna(subset=['datetime', 'ticker', 'close']); the fills are guarded by
\* "if col in df_clean.columns"
HandleMissingValuesOn(f) ==
    IF ~({"datetime", "ticker", "close"} \subseteq f.columns)
    THEN Raises(f, "KeyError")
    ELSE Returns(Filtered([f EXCEPT !.null_rows = 0]))

\* every conversion is guarded by "if col in df.columns"
ValidateDataTypesOn(f) == Returns({f})

\* guarded by "if all(col in df.columns ...)" and "if 'volume' in df.columns"
FixDataInconsistenciesOn(f) == Returns({f})

\* the loop over price_columns is guarded by "if col in df_clean.columns"
RemoveOutliersOn(f) == Returns(Filtered(f))

\* every rule is guarded by "if col in df.columns"
ValidateBusinessRulesOn(f) == Returns(Filtered(f))

\* sort_values(['datetime', 'ticker']).reset_index(drop=True)
SortValuesOn(f) ==
    IF ~({"datetime", "ticker"} \subseteq f.columns) THEN Raises(f, "KeyError")
    ELSE Returns({f})

CleanStages ==
    << "remove_duplicates", "handle_missing_values", "validate_data_types",
       "fix_data_inconsistencies", "remove_outliers", "validate_business_rules",
       "sort_values" >>

CleanStageOn(stage, f) ==
    CASE stage = "remove_duplicates" -> RemoveDuplicatesOn(f)
      [] stage = "handle_missing_values" -> HandleMissingValuesOn(f)
      [] stage = "validate_data_types" -> ValidateDataTypesOn(f)
      [] stage = "fix_data_inconsistencies" -> FixDataInconsistenciesOn(f)
      [] stage = "remove_outliers" -> RemoveOutliersOn(f)
      [] stage = "validate_business_rules" -> ValidateBusinessRulesOn(f)
      [] stage = "sort_values" -> SortValuesOn(f)

\* one stage of the indicators: df['ticker'].unique(), then for each ticker
\* the rows with df['ticker'] == ticker (none for a null ticker, which is
\* not equal to itself), sorted by 'date', the columns in needs read, and
\* pd.concat of the results, which raises when there was no ticker
IndicatorStageOn(f, needs) ==
    IF "ticker" \notin f.columns THEN Raises(f, "KeyError")
    ELSE IF IsEmpty(f) THEN Raises(f, "ValueError")
    ELSE IF ~(({"date"} \cup needs) \subseteq f.columns) THEN Raises(f, "KeyError")
    ELSE Returns({[f EXCEPT !.null_rows = 0]})

CalculateReturnsOn(f) == IndicatorStageOn(f, {"close"})

CalculateMovingAveragesOn(f) == IndicatorStageOn(f, {"close"})

CalculateVolatilityIndicatorsOn(f) == IndicatorStageOn(f, {"high", "low", "close"})

CalculateMomentumIndicatorsOn(f) == IndicatorStageOn(f, {"close", "low", "high"})

CalculateVolumeIndicatorsOn(f) == IndicatorStageOn(f, {"volume", "close", "high", "low"})

\* dropna(subset=indicator_columns, how='all')
DropnaOn(f) == Returns(Filtered(f))

IndicatorStages ==
    << "calculate_returns", "calculate_moving_averages",
       "calculate_volatility_indicators", "calculate_momentum_indicators",
       "calculate_volume_indicators", "dropna" >>

IndicatorStageAt(stage, f) ==
    CASE stage = "calculate_returns" -> CalculateReturnsOn(f)
      [] stage = "calculate_moving_averages" -> CalculateMovingAveragesOn(f)
      [] stage = "calculate_volatility_indicators" -> CalculateVolatilityIndicatorsOn(f)
      [] stage = "calculate_momentum_indicators" -> CalculateMomentumIndicatorsOn(f)
      [] stage = "calculate_volume_indicators" -> CalculateVolumeIndicatorsOn(f)
      [] stage = "dropna" -> DropnaOn(f)

\* the stage after stage, or "returned" after the last
After(stages, stage) ==
    LET i == CHOOSE j \in 1..Len(stages) : stages[j] = stage
    IN  IF i = Len(stages) THEN "returned" ELSE stages[i + 1]

InStages(stages, stage) == \E j \in 1..Len(stages) : stages[j] = stage

\* a caller calls clean_data(df): cleaned_df = df.copy()
CallCleanData ==
    /\ spc = "input"
    /\ \E f \in FrameChoices : given' = f /\ work' = f
    /\ call' = "clean_data"
    /\ spc' = CleanStages[1]
    /\ piped' = FALSE
    /\ UNCHANGED error
    /\ UNCHANGED notShapeVars

\* a caller calls calculate_all_indicators(df)
CallCalculateAllIndicators ==
    /\ spc = "input"
    /\ \E f \in FrameChoices : given' = f /\ work' = f
    /\ call' = "calculate_all_indicators"
    /\ spc' = IndicatorStages[1]
    /\ piped' = FALSE
    /\ UNCHANGED error
    /\ UNCHANGED notShapeVars

\* the pipeline hands what clean_data returned to calculate_all_indicators
PipeToIndicators ==
    /\ call = "clean_data"
    /\ spc = "returned"
    /\ given' = work
    /\ call' = "calculate_all_indicators"
    /\ spc' = IndicatorStages[1]
    /\ piped' = TRUE
    /\ UNCHANGED <<work, error>>
    /\ UNCHANGED notShapeVars

\* one stage of clean_data; an exception is logged and raised again
CleanStage ==
    /\ call = "clean_data"
    /\ InStages(CleanStages, spc)
    /\ \E out \in CleanStageOn(spc, work) :
          /\ work' = out.frame
          /\ error' = out.raised
          /\ spc' = IF out.raised = "none" THEN After(CleanStages, spc) ELSE "raised"
    /\ UNCHANGED <<given, call, piped>>
    /\ UNCHANGED notShapeVars

\* one stage of calculate_all_indicators; an exception is logged and raised
\* again
IndicatorStage ==
    /\ call = "calculate_all_indicators"
    /\ InStages(IndicatorStages, spc)
    /\ \E out \in IndicatorStageAt(spc, work) :
          /\ work' = out.frame
          /\ error' = out.raised
          /\ spc' = IF out.raised = "none" THEN After(IndicatorStages, spc)
                    ELSE "raised"
    /\ UNCHANGED <<given, call, piped>>
    /\ UNCHANGED notShapeVars

NextShape ==
    \/ CallCleanData
    \/ CallCalculateAllIndicators
    \/ PipeToIndicators
    \/ CleanStage
    \/ IndicatorStage

SpecShape == Init /\ [][NextShape]_vars

(***************************************************************************)
(* Properties of the exceptions.                                           *)
(***************************************************************************)
Finished == spc \in {"returned", "raised"}

\* C13: clean_data raises exactly on structural failure: when the input has
\* no rows and when it lacks its date column (under either name), ticker,
\* open, close, high, low or volume; otherwise it returns.
C13_CleanRaisesOnStructuralFailure ==
    (call = "clean_data" /\ Finished) =>
        (spc = "raised" <=>
            \/ IsEmpty(given)
            \/ ~(Values \subseteq given.columns)
            \/ given.columns \cap {"date", "datetime"} = {})

\* C13, what the code does: clean_data raises exactly when the input lacks
\* datetime, ticker or close.
C13_CleanRaisesOnMissingKey ==
    (call = "clean_data" /\ Finished) =>
        (spc = "raised" <=> ~({"datetime", "ticker", "close"} \subseteq given.columns))

\* C14: calculate_all_indicators raises exactly on structural input errors:
\* when the input is empty and when ticker, date, close, high, low or volume
\* is missing; otherwise it returns.
C14_IndicatorsRaiseOnStructuralError ==
    (call = "calculate_all_indicators" /\ ~piped /\ Finished) =>
        (spc = "raised" <=>
            \/ IsEmpty(given)
            \/ ~({"ticker", "date", "close", "high", "low", "volume"}
                    \subseteq given.columns))

\* C14, what the code does: the same when some row of the input has a
\* ticker.
C14_IndicatorsRaiseOnStructuralErrorWithTickers ==
    (call = "calculate_all_indicators" /\ ~piped /\ Finished /\ given.rows > 0) =>
        (spc = "raised" <=>
            ~({"ticker", "date", "close", "high", "low", "volume"}
                 \subseteq given.columns))

\* C15: the two stages compose.  What clean_data returns has the columns of
\* its input, and calculate_all_indicators raises no missing-column error on
\* it when it has rows.
C15_StagesCompose ==
    (call = "calculate_all_indicators" /\ piped /\ Finished) =>
        /\ \E f \in FrameChoices : f.columns = given.columns
        /\ ~IsEmpty(given) => error # "KeyError"


(***************************************************************************)
(* Properties of the calls of clean_data: repeated calls, the order of the *)
(* output, the caller's DataFrame and the fills.                           *)
(***************************************************************************)
Returned == pc \in {"cleaned", "cleaned_twice"}

C17_SortedByDateAndTicker ==
    Returned =>
        /\ \A i \in 1..(Len(cleaned_df) - 1) :
              LET r1 == cleaned_df[i]
                  r2 == cleaned_df[i + 1]
              IN  /\ ~isna(r1.datetime) /\ ~isna(r2.datetime)
                  /\ \/ r1.datetime.v < r2.datetime.v
                     \/ /\ r1.datetime.v = r2.datetime.v
                        /\ TickerRank(r1.ticker) <= TickerRank(r2.ticker)
        /\ \A i \in 1..Len(cleaned_df) : cleaned_df[i].index = i - 1

\* C17 happens: the output has rows that were in another order in the input,
\* on different dates and, on one date, with different tickers.
C17_Witness ==
    /\ Returned
    /\ \E i \in 1..(Len(cleaned_df) - 1) :
          /\ cleaned_df[i].row_id > cleaned_df[i + 1].row_id
          /\ cleaned_df[i].datetime.v < cleaned_df[i + 1].datetime.v
    /\ \E i \in 1..(Len(cleaned_df) - 1) :
          /\ cleaned_df[i].datetime = cleaned_df[i + 1].datetime
          /\ cleaned_df[i].ticker # cleaned_df[i + 1].ticker

BeforeFills == dropna_critical(_remove_duplicates(df))

HasDate(r) == r.datetime.k \in {"iso", "alt", "ts"}

\* the rows of d of the ticker of r that have a value in col and a date
\* before (after = FALSE) or after (after = TRUE) the date of r
Donors(d, r, col, after) ==
    { j \in 1..Len(d) :
        /\ d[j].ticker = r.ticker /\ HasDate(d[j]) /\ ~isna(d[j][col])
        /\ IF after THEN d[j].datetime.v > r.datetime.v
           ELSE d[j].datetime.v < r.datetime.v }

\* every row of d of the ticker of r has a date
AllDated(d, r) == \A j \in 1..Len(d) : d[j].ticker = r.ticker => HasDate(d[j])

\* the values col may have after a fill in chronological order: of the
\* nearest earlier-dated donor, else of the nearest later-dated one
ChronologicalFill(d, r, col) ==
    LET earlier == Donors(d, r, col, FALSE)
        later == Donors(d, r, col, TRUE)
    IN  IF earlier # {}
        THEN { d[j][col] : j \in { k \in earlier :
                 \A m \in earlier : d[m].datetime.v <= d[k].datetime.v } }
        ELSE IF later # {}
        THEN { d[j][col] : j \in { k \in later :
                 \A m \in later : d[k].datetime.v <= d[m].datetime.v } }
        ELSE { r[col] }

\* the values of col in the rows of the ticker and of the day of r, the day
\* written in another way
SameDay(d, r, col) ==
    { d[j][col] : j \in { k \in 1..Len(d) :
        /\ d[k].ticker = r.ticker /\ HasDate(d[k]) /\ ~isna(d[k][col])
        /\ d[k].datetime.v = r.datetime.v } }

FilledColumns == {"open", "high", "low", "volume"}

\* C20: null handling.  A row with a missing date, ticker or close is
\* dropped; a missing open, high, low or volume is replaced by the value of
\* the nearest earlier-dated row of the same ticker that has one and, when
\* there is none, of the nearest later-dated one, whatever the order of the
\* rows in the input.  (Stated for the tickers all of whose rows have a date;
\* a value of a row of the same day is accepted too.)
C20_ChronologicalFill ==
    pc = "validate_data_types" =>
        /\ Len(cleaned_df) = Len(BeforeFills)
        /\ \A i \in 1..Len(cleaned_df) :
              LET r == BeforeFills[i]
              IN  /\ ~isna(r.datetime) /\ r.ticker # NullTicker /\ ~isna(r.close)
                  /\ \A col \in FilledColumns :
                        IF ~isna(r[col]) THEN cleaned_df[i][col] = r[col]
                        ELSE AllDated(BeforeFills, r) =>
                                cleaned_df[i][col]
                                    \in ChronologicalFill(BeforeFills, r, col)
                                         \cup SameDay(BeforeFills, r, col)

\* C20, what the code does: the rows with a missing date, ticker or close
\* are dropped, and a fill takes the value of a row of the same ticker.
C20_FillWithinTicker ==
    pc = "validate_data_types" =>
        /\ Len(cleaned_df) = Len(BeforeFills)
        /\ \A i \in 1..Len(cleaned_df) :
              LET r == BeforeFills[i]
              IN  /\ ~isna(r.datetime) /\ r.ticker # NullTicker /\ ~isna(r.close)
                  /\ \A col \in FilledColumns :
                        \/ cleaned_df[i][col] = r[col]
                        \/ /\ isna(r[col])
                           /\ \E j \in 1..Len(BeforeFills) :
                                 /\ BeforeFills[j].ticker = r.ticker
                                 /\ BeforeFills[j][col] = cleaned_df[i][col]


(***************************************************************************)
(* The post-processing of calculate_all_indicators on its own: the rows    *)
(* the five stages produce for cleaned bars always have a vpt and a        *)
(* total_return, so here the dropna is given frames with every pattern of  *)
(* null, finite and infinite values in two of the indicator columns.       *)
(***************************************************************************)
PostColumns == {"sma_5", "rsi_14"}

PostValues == {NaNValue, FromInt(1), Inf(1)}

AddIndicatorRow ==
    /\ ppc = "input"
    /\ Len(post_in) < MaxPostRows
    /\ \E ind \in [PostColumns -> PostValues] :
          post_in' = Append(post_in, [row_id |-> Len(post_in) + 1, ind |-> ind])
    /\ UNCHANGED <<post_out, ppc>>
    /\ UNCHANGED notPostVars

\* enriched_df = enriched_df.dropna(subset=indicator_columns, how='all')
PostProcess ==
    /\ ppc = "input"
    /\ Len(post_in) > 0
    /\ post_out' = dropna_all(post_in)
    /\ ppc' = "done"
    /\ UNCHANGED post_in
    /\ UNCHANGED notPostVars

NextPost ==
    \/ AddIndicatorRow
    \/ PostProcess

SpecPost == Init /\ [][NextPost]_vars

AllNull(r) == \A c \in DOMAIN r.ind : isnull(r.ind[c])

\* C19: post-processing drops a row if and only if every indicator column of
\* the row is null; a row with at least one non-null indicator is retained,
\* its null indicators left null, in the order of the rows.
C19_DroppedIffAllNull ==
    ppc = "done" =>
        /\ \A i \in 1..Len(post_in) :
              AllNull(post_in[i]) <=> ~(\E j \in 1..Len(post_out) : post_out[j] = post_in[i])
        /\ \A j \in 1..Len(post_out) :
              \E i \in 1..Len(post_in) : post_out[j] = post_in[i]
        /\ \A j \in 1..(Len(post_out) - 1) : post_out[j].row_id < post_out[j + 1].row_id

\* C19 happens: one row was dropped, and a row with a null indicator and
\* another one that is not null was retained.
C19_Witness ==
    /\ ppc = "done"
    /\ Len(post_out) < Len(post_in)
    /\ \E j \in 1..Len(post_out) :
          \E c1, c2 \in PostColumns :
              isnull(post_out[j].ind[c1]) /\ ~isnull(post_out[j].ind[c2])


(***************************************************************************)
(* Properties of the outlier stage.                                        *)
(***************************************************************************)
\* the k-th smallest of the values of col in the rows S of d, by counting
OrderStatistic(d, S, col, k) ==
    CHOOSE v \in {d[j][col].v : j \in S} :
        /\ Cardinality({j \in S : d[j][col].v < v}) < k
        /\ Cardinality({j \in S : d[j][col].v <= v}) >= k

\* 4 * the quartile q4 / 4 of those values, interpolated linearly
QuartileX4(d, S, col, q4) ==
    LET pos4 == q4 * (Cardinality(S) - 1)
        below == OrderStatistic(d, S, col, (pos4 \div 4) + 1)
        above == OrderStatistic(d, S, col, ((pos4 + 3) \div 4) + 1)
    IN  4 * below + (pos4 % 4) * (above - below)

\* the rows of S whose value of col lies in [Q1 - 1.5 IQR, Q3 + 1.5 IQR],
\* Q1 and Q3 taken over the rows of S of all tickers that have a value
WithinFences(d, S, col) ==
    LET valued == {j \in S : ~isna(d[j][col])}
        q1 == QuartileX4(d, valued, col, 1)
        q3 == QuartileX4(d, valued, col, 3)
    IN  { i \in valued :
            /\ 8 * d[i][col].v >= 2 * q1 - 3 * (q3 - q1)
            /\ 8 * d[i][col].v <= 2 * q3 + 3 * (q3 - q1) }

PassedAllFour(d) ==
    WithinFences(d,
        WithinFences(d,
            WithinFences(d,
                WithinFences(d, 1..Len(d), "open"), "close"), "high"), "low")

\* C21: the IQR rejection filters over open, close, high, low in that order,
\* each column's quartiles taken over the rows of all tickers that survived
\* the column before; the rows kept are exactly the rows inside the fences,
\* and a row is in the output iff it passed all four filters.
C21_SequentialIqr ==
    pc = "validate_business_rules" =>
        \E before \in {_fix_data_inconsistencies(_validate_data_types(
                          _handle_missing_values(_remove_duplicates(df))))} :
            /\ Len(cleaned_df) = Cardinality(PassedAllFour(before))
            /\ \A i \in 1..Len(before) :
                  i \in PassedAllFour(before)
                      <=> \E j \in 1..Len(cleaned_df) : cleaned_df[j] = before[i]

\* C21 happens: rows of two tickers entered the stage, the filter of open
\* kept rows that the filter of a later column dropped, and rows were kept.
C21_Witness ==
    /\ pc = "validate_business_rules"
    /\ Len(cleaned_df) > 0
    /\ \E before \in {_fix_data_inconsistencies(_validate_data_types(
                         _handle_missing_values(_remove_duplicates(df))))} :
          /\ \E i, j \in 1..Len(before) : before[i].ticker # before[j].ticker
          /\ Len(cleaned_df) < Cardinality(WithinFences(before, 1..Len(before), "open"))
          /\ Cardinality(WithinFences(before, 1..Len(before), "open")) < Len(before)


\* C22: business-rule validation drops negative volume: an input row whose
\* volume is below 0 is absent from the output of clean_data, and the
\* inconsistency repair before it changes only high and low, never the
\* volume or the number of rows.
C22_NegativeVolumeDropped ==
    /\ Returned =>
          \A j \in 1..Len(cleaned_df) :
              LET given_volume == InputRow(cleaned_df[j]).volume
              IN  ~(~isna(given_volume) /\ given_volume.v < 0)
    /\ pc = "remove_outliers" =>
          \E before \in {_validate_data_types(
                            _handle_missing_values(_remove_duplicates(df)))} :
              /\ Len(cleaned_df) = Len(before)
              /\ \A i \in 1..Len(before) :
                    /\ cleaned_df[i].volume = before[i].volume
                    /\ cleaned_df[i].open = before[i].open
                    /\ cleaned_df[i].close = before[i].close

\* C22, what the code does: the repair changes high, low and a negative
\* volume, which it sets to 0, and no row of the output has a negative
\* volume.
C22_NegativeVolumeClipped ==
    /\ Returned =>
          \A j \in 1..Len(cleaned_df) :
              ~isna(cleaned_df[j].volume) /\ cleaned_df[j].volume.v >= 0
    /\ pc = "remove_outliers" =>
          \E before \in {_validate_data_types(
                            _handle_missing_values(_remove_duplicates(df)))} :
              /\ Len(cleaned_df) = Len(before)
              /\ \A i \in 1..Len(before) :
                    /\ cleaned_df[i].volume = clip_lower_0(before[i].volume)
                    /\ cleaned_df[i].open = before[i].open
                    /\ cleaned_df[i].close = before[i].close


(***************************************************************************)
(* Properties of the volume indicators and of the rows of the output.      *)
(***************************************************************************)
\* the rows of d of the ticker of r dated before r
EarlierBars(d, r) ==
    {j \in 1..Len(d) : d[j].ticker = r.ticker /\ d[j].date < r.date}

\* the latest of them
PreviousBar(d, r) ==
    d[CHOOSE j \in EarlierBars(d, r) :
          \A k \in EarlierBars(d, r) : d[k].date <= d[j].date]

\* C23: obv is a fold over the bars of one ticker in the order of their
\* dates: on the first bar it is the volume of the bar, on a later bar the
\* obv of the bar before plus the volume when the close rose, minus the
\* volume when it fell, and the same when it did not change; nothing is
\* carried over from another ticker.
C23_ObvFold ==
    ipc = "done" =>
        \A i \in 1..Len(enriched_df) :
            LET r == enriched_df[i]
            IN  IF EarlierBars(enriched_df, r) = {}
                THEN r.ind["obv"] = FromInt(r.volume)
                ELSE LET p == PreviousBar(enriched_df, r)
                     IN  r.ind["obv"] =
                            IF r.close > p.close
                            THEN Add(p.ind["obv"], FromInt(r.volume))
                            ELSE IF r.close < p.close
                            THEN Sub(p.ind["obv"], FromInt(r.volume))
                            ELSE p.ind["obv"]

\* C23 happens: two tickers, and a ticker with a bar on which the close
\* rose, one on which it fell and one on which it stayed, each with volume.
C23_Witness ==
    /\ ipc = "done"
    /\ \E i, j \in 1..Len(enriched_df) : enriched_df[i].ticker # enriched_df[j].ticker
    /\ \E t \in Tickers(enriched_df) :
          \A way \in {"rose", "fell", "stayed"} :
              \E i \in 1..Len(enriched_df) :
                  LET r == enriched_df[i]
                  IN  /\ r.ticker = t /\ r.volume > 0
                      /\ EarlierBars(enriched_df, r) # {}
                      /\ CASE way = "rose" -> r.close > PreviousBar(enriched_df, r).close
                           [] way = "fell" -> r.close < PreviousBar(enriched_df, r).close
                           [] way = "stayed" -> r.close = PreviousBar(enriched_df, r).close


\* the columns that have a value on every bar
AlwaysSet ==
    {"tr", "obv", "vpt", "total_return"}
        \cup {"ema_" \o ToString(periods[j]) : j \in 1..Len(periods)}

SameBar(r, b) ==
    /\ r.date = b.date /\ r.ticker = b.ticker
    /\ r.open = b.open /\ r.high = b.high /\ r.low = b.low
    /\ r.close = b.close /\ r.volume = b.volume

\* the place of the first row of ticker t in d
FirstRow(d, t) == SetMin({i \in 1..Len(d) : d[i].ticker = t})

\* C26: calculate_all_indicators preserves the rows of a cleaned input: the
\* output has exactly one row for each input row, with its date, ticker and
\* OHLCV values; ema_p, tr, obv, vpt and total_return are not null on any
\* bar, so the all-null drop removes nothing; the output is grouped by
\* ticker in the order of first appearance and ascending by date inside a
\* group.
C26_RowsPreserved ==
    ipc = "done" =>
        /\ Len(enriched_df) = Len(bars)
        /\ \A i \in 1..Len(bars) :
              Cardinality({j \in 1..Len(enriched_df) :
                              SameBar(enriched_df[j], bars[i])}) = 1
        /\ \A j \in 1..Len(enriched_df) :
              \A c \in AlwaysSet :
                  c \in DOMAIN enriched_df[j].ind /\ ~isnull(enriched_df[j].ind[c])
        /\ \A j \in 1..(Len(enriched_df) - 1) :
              LET r1 == enriched_df[j]
                  r2 == enriched_df[j + 1]
              IN  IF r1.ticker = r2.ticker THEN r1.date < r2.date
                  ELSE FirstRow(bars, r1.ticker) < FirstRow(bars, r2.ticker)

\* C26 happens: the rows of two tickers alternate in the input, and a row of
\* the output has no sma_5 yet.
C26_Witness ==
    /\ ipc = "done"
    /\ \E i \in 1..(Len(bars) - 2) :
          /\ bars[i].ticker # bars[i + 1].ticker
          /\ bars[i + 1].ticker # bars[i + 2].ticker
    /\ \E j \in 1..Len(enriched_df) : isnull(enriched_df[j].ind["sma_5"])


(***************************************************************************)
(* Nulls in the output of the cleaner.                                     *)
(***************************************************************************)
CellColumns == {"datetime", "open", "high", "low", "close", "volume"}

HasNull(r) == r.ticker = NullTicker \/ \E c \in CellColumns : isna(r[c])

\* C25: the cleaned output holds no null: every row clean_data returns has
\* a date, a ticker, an open, a high, a low, a close and a volume.
C25_NoNullInOutput ==
    Returned => \A j \in 1..Len(cleaned_df) : ~HasNull(cleaned_df[j])

\* C25 happens: of the input rows that had a null after coercion, one is in
\* the output (filled or repaired) and another one is not.
C25_Witness ==
    /\ Returned
    /\ \E j \in 1..Len(cleaned_df) : HasNull(InputRow(cleaned_df[j]))
    /\ \E i \in 1..Len(df) :
          /\ HasNull(_validate_data_types(df)[i])
          /\ \A j \in 1..Len(cleaned_df) : cleaned_df[j].row_id # i


(***************************************************************************)
(* The DAG simulator (airflow_demo).  start_dag creates a DAGRun row and   *)
(* starts a thread that runs DAGSimulator(run_id).run_dag(); the threads   *)
(* of different runs interleave.  dag_run[r].status is "none" until the   *)
(* row is created.  simulator[r].i is the place of the loop of run_dag in the     *)
(* execution order and simulator[r].left the tasks in the order in which   *)
(* they left QUEUED.                                                       *)
(***************************************************************************)
Runs == 1..MaxRuns

execution_order_mongodb_first ==
    << "start", "extract_data", "transform_data", "load_to_mongodb",
       "load_to_postgres", "validate_data", "end" >>

\* DAGSimulator._get_execution_order
_get_execution_order ==
    << "start", "extract_data", "transform_data", "load_to_postgres",
       "load_to_mongodb", "validate_data", "end" >>

TaskIds == {_get_execution_order[k] : k \in 1..Len(_get_execution_order)}

dependencies_on_the_end(task_id) ==
    IF task_id = "start" THEN {"end"} ELSE {}

\* self.tasks[task_id]['dependencies']
dependencies(task_id) ==
    CASE task_id = "start" -> {}
      [] task_id = "extract_data" -> {"start"}
      [] task_id = "transform_data" -> {"extract_data"}
      [] task_id = "load_to_postgres" -> {"transform_data"}
      [] task_id = "load_to_mongodb" -> {"transform_data"}
      [] task_id = "validate_data" -> {"load_to_postgres", "load_to_mongodb"}
      [] task_id = "end" -> {"validate_data"}

\* DAGSimulator._can_execute_task
_can_execute_task(instances, task_id) ==
    \A dep \in dependencies(task_id) :
        dep \in DOMAIN instances => instances[dep] = "SUCCESS"

\* what an executor does: _execute_start only sleeps and returns True; the
\* others return True, return False, or raise (from _log_message)
Outcomes(task_id) ==
    IF task_id = "start" THEN {"True"} ELSE {"True", "False", "raises"}

update_dag_status_only(run, status) == [run EXCEPT !.status = status]

\* DAGSimulator._update_dag_status
_update_dag_status(run, status) ==
    [run EXCEPT !.status = status,
                !.end_time = IF status \in {"SUCCESS", "FAILED"} THEN TRUE ELSE @]

\* views.start_dag: DAGRun.objects.create(status="QUEUED") and the thread
start_dag(r) ==
    /\ dag_run[r].status = "none"
    /\ dag_run' = [dag_run EXCEPT ![r].status = "QUEUED"]
    /\ simulator' = [simulator EXCEPT ![r].pc = "run_dag"]
    /\ UNCHANGED task_instances
    /\ UNCHANGED notDagVars

\* run_dag up to the loop: _update_dag_status('RUNNING')
UpdateRunning(r) ==
    /\ simulator[r].pc = "run_dag"
    /\ dag_run' = [dag_run EXCEPT ![r] = _update_dag_status(@, "RUNNING")]
    /\ simulator' = [simulator EXCEPT ![r].pc = "create_task_instances"]
    /\ UNCHANGED task_instances
    /\ UNCHANGED notDagVars

\* DAGSimulator._create_task_instances, in one transaction
_create_task_instances(r) ==
    /\ simulator[r].pc = "create_task_instances"
    /\ task_instances' = [task_instances EXCEPT ![r] =
                             [t \in TaskIds |-> "QUEUED"]]
    /\ dag_run' = [dag_run EXCEPT ![r].total_tasks = Cardinality(TaskIds)]
    /\ simulator' = [simulator EXCEPT ![r].pc = "loop", ![r].i = 1]
    /\ UNCHANGED notDagVars

\* one turn of the loop of run_dag up to the sleep of _execute_task: a task
\* that cannot run is passed over, another one becomes RUNNING
StartTask(r) ==
    /\ simulator[r].pc = "loop"
    /\ simulator[r].i <= Len(_get_execution_order)
    /\ LET task_id == _get_execution_order[simulator[r].i]
       IN  IF _can_execute_task(task_instances[r], task_id)
           THEN /\ task_instances' = [task_instances EXCEPT ![r][task_id] = "RUNNING"]
                /\ simulator' = [simulator EXCEPT
                                    ![r].pc = "execute_task",
                                    ![r].left = Append(@, task_id)]
           ELSE /\ simulator' = [simulator EXCEPT ![r].i = @ + 1]
                /\ UNCHANGED task_instances
    /\ UNCHANGED dag_run
    /\ UNCHANGED notDagVars

\* the rest of _execute_task and what run_dag does with its result
_execute_task(r) ==
    /\ simulator[r].pc = "execute_task"
    /\ LET task_id == _get_execution_order[simulator[r].i]
       IN  \E outcome \in Outcomes(task_id) :
              CASE outcome = "True" ->
                     /\ task_instances' =
                            [task_instances EXCEPT ![r][task_id] = "SUCCESS"]
                     /\ dag_run' = [dag_run EXCEPT ![r].completed_tasks = @ + 1]
                     /\ simulator' = [simulator EXCEPT ![r].pc = "loop",
                                                       ![r].i = @ + 1]
                [] outcome = "False" ->
                     /\ task_instances' =
                            [task_instances EXCEPT ![r][task_id] = "FAILED"]
                     /\ dag_run' = [dag_run EXCEPT ![r] =
                            _update_dag_status(
                                [@ EXCEPT !.failed_tasks = @ + 1], "FAILED")]
                     /\ simulator' = [simulator EXCEPT ![r].pc = "returned"]
                [] outcome = "raises" ->
                     /\ task_instances' =
                            [task_instances EXCEPT ![r][task_id] = "FAILED"]
                     /\ dag_run' = [dag_run EXCEPT ![r] =
                            _update_dag_status(@, "FAILED")]
                     /\ simulator' = [simulator EXCEPT ![r].pc = "returned"]
    /\ UNCHANGED notDagVars

\* after the loop: _update_dag_status('SUCCESS')
FinishDag(r) ==
    /\ simulator[r].pc = "loop"
    /\ simulator[r].i > Len(_get_execution_order)
    /\ dag_run' = [dag_run EXCEPT ![r] = _update_dag_status(@, "SUCCESS")]
    /\ simulator' = [simulator EXCEPT ![r].pc = "returned"]
    /\ UNCHANGED task_instances
    /\ UNCHANGED notDagVars

NextDagOf(r) ==
    \/ UpdateRunning(r)
    \/ _create_task_instances(r)
    \/ StartTask(r)
    \/ _execute_task(r)
    \/ FinishDag(r)

NextDag ==
    \E r \in Runs :
        \/ start_dag(r)
        \/ UpdateRunning(r)
        \/ _create_task_instances(r)
        \/ StartTask(r)
        \/ _execute_task(r)
        \/ FinishDag(r)

SpecDag == Init /\ [][NextDag]_vars

\* the thread of a started run goes on running
SpecDagFair == SpecDag /\ \A r \in Runs : WF_vars(NextDagOf(r))


(***************************************************************************)
(* Properties of the DAG simulator.                                        *)
(***************************************************************************)
ClaimedOrder ==
    << "start", "extract_data", "transform_data", "load_to_postgres",
       "load_to_mongodb", "validate_data", "end" >>

ClaimedDependencies ==
    [start |-> {}, extract_data |-> {"start"}, transform_data |-> {"extract_data"},
     load_to_postgres |-> {"transform_data"}, load_to_mongodb |-> {"transform_data"},
     validate_data |-> {"load_to_postgres", "load_to_mongodb"},
     end |-> {"validate_data"}]

Created(r) == DOMAIN task_instances[r] # {}

\* C27: a task respects its dependencies: a task that is RUNNING, SUCCESS or
\* FAILED has every task it depends on in SUCCESS, at most one task of a run
\* is RUNNING, and the tasks leave QUEUED in the order start, extract_data,
\* transform_data, load_to_postgres, load_to_mongodb, validate_data, end.
C27_DependenciesRespected ==
    \A r \in Runs :
        /\ Created(r) =>
              /\ \A t \in DOMAIN task_instances[r] :
                    task_instances[r][t] \in {"RUNNING", "SUCCESS", "FAILED"} =>
                        \A dep \in ClaimedDependencies[t] :
                            task_instances[r][dep] = "SUCCESS"
              /\ Cardinality({t \in DOMAIN task_instances[r] :
                                 task_instances[r][t] = "RUNNING"}) <= 1
        /\ simulator[r].left = SubSeq(ClaimedOrder, 1, Len(simulator[r].left))
        /\ Created(r) =>
              \A t \in DOMAIN task_instances[r] :
                  task_instances[r][t] # "QUEUED"
                      <=> \E k \in 1..Len(simulator[r].left) : simulator[r].left[k] = t

\* C27 happens: validate_data is running after both loads succeeded, while
\* another run is still at extract_data.
C27_Witness ==
    \E r1, r2 \in Runs :
        /\ Created(r1) /\ Created(r2)
        /\ task_instances[r1]["validate_data"] = "RUNNING"
        /\ task_instances[r2]["extract_data"] = "RUNNING"

\* C28: a run ends in SUCCESS only when all work succeeded: all seven task
\* instances are SUCCESS, completed_tasks = total_tasks = 7, failed_tasks =
\* 0, and no task is QUEUED or was passed over.
C28_SuccessMeansAllSucceeded ==
    \A r \in Runs :
        dag_run[r].status = "SUCCESS" =>
            /\ DOMAIN task_instances[r] =
                  {ClaimedOrder[k] : k \in 1..Len(ClaimedOrder)}
            /\ \A t \in DOMAIN task_instances[r] : task_instances[r][t] = "SUCCESS"
            /\ dag_run[r].completed_tasks = 7
            /\ dag_run[r].total_tasks = 7
            /\ dag_run[r].failed_tasks = 0
            /\ Len(simulator[r].left) = 7

\* C28 happens: one run ended in SUCCESS and another one in FAILED.
C28_Witness ==
    \E r1, r2 \in Runs :
        /\ dag_run[r1].status = "SUCCESS" /\ dag_run[r1].end_time
        /\ dag_run[r2].status = "FAILED" /\ dag_run[r2].completed_tasks > 0

Place(t) == CHOOSE k \in 1..Len(ClaimedOrder) : ClaimedOrder[k] = t

\* a task failed and run_dag returned: the run is FAILED with its end_time
\* and the tasks after the failed one are QUEUED; a run that returned is
\* FAILED when a task failed and SUCCESS otherwise
StoppedAtFailure(r) ==
    /\ \A t \in DOMAIN task_instances[r] :
          task_instances[r][t] = "FAILED" =>
              /\ \A u \in DOMAIN task_instances[r] :
                    Place(u) > Place(t) => task_instances[r][u] = "QUEUED"
              /\ simulator[r].pc = "returned" =>
                    dag_run[r].status = "FAILED" /\ dag_run[r].end_time
    /\ simulator[r].pc = "returned" =>
          IF \E t \in DOMAIN task_instances[r] : task_instances[r][t] = "FAILED"
          THEN dag_run[r].status = "FAILED"
          ELSE dag_run[r].status = "SUCCESS"

\* a FAILED run stays as it is
FailedForEver(r) ==
    dag_run[r].status = "FAILED" =>
        /\ dag_run'[r] = dag_run[r]
        /\ task_instances'[r] = task_instances[r]

\* C29: a task failure stops the run: the task becomes FAILED, the run
\* becomes FAILED with its end_time set, every task later in the execution
\* order stays QUEUED for ever, the run never becomes RUNNING or SUCCESS
\* again, and every started run eventually reaches SUCCESS or FAILED.
C29_FailureStopsTheRun ==
    /\ [](\A r \in Runs : StoppedAtFailure(r))
    /\ [][\A r \in Runs : FailedForEver(r)]_vars
    /\ \A r \in Runs :
          (dag_run[r].status = "QUEUED")
              ~> (dag_run[r].status \in {"SUCCESS", "FAILED"})

\* C29 happens: an executor returned False in one run and another executor
\* raised in another run, each before the end of the execution order.
C29_Witness ==
    \E r1, r2 \in Runs :
        /\ dag_run[r1].status = "FAILED" /\ dag_run[r1].failed_tasks = 1
        /\ task_instances[r1]["transform_data"] = "FAILED"
        /\ dag_run[r2].status = "FAILED" /\ dag_run[r2].failed_tasks = 0
        /\ task_instances[r2]["load_to_postgres"] = "FAILED"

(***************************************************************************)
(* The ETL progress views (etl_views.py).  etl_progress is one dict of the *)
(* module; every start_etl request resets it and every monitor or          *)
(* background thread writes to it.  A job is one start_etl request with    *)
(* the thread it starts; jobs are numbered in the order of their requests. *)
(* Airflow's DAG run of job j has the dag_run_id j.  The model adds to     *)
(* etl_progress what the dict does not hold: by and progress_by, the job   *)
(* whose code wrote status and progress last, and with every line of logs  *)
(* and errors the job that wrote it.  logs keeps its last MaxLogs lines    *)
(* (get_etl_progress reports the last 50).                                 *)
(***************************************************************************)
Jobs == {1, 2}

\* tasks of monitor_airflow_dag
tasks == << "extract_data", "transform_data", "load_data", "update_metadata" >>

LastLines(lines) ==
    IF Len(lines) <= MaxLogs THEN lines
    ELSE SubSeq(lines, Len(lines) - MaxLogs + 1, Len(lines))

\* airflow_client.get_task_status(dag_id, dag_run_id, tasks[k]), k from 0
get_task_status(dag_run_id, k) ==
    CASE airflow[dag_run_id].state = "success" -> "success"
      [] k < airflow[dag_run_id].done -> "success"
      [] k = airflow[dag_run_id].done ->
            IF airflow[dag_run_id].state = "failed" THEN "failed" ELSE "running"
      [] OTHER -> "queued"

\* the update of the except branches: status error and one more error
ErrorUpdate(j) ==
    [etl_progress EXCEPT !.status = "error", !.by = j,
                         !.errors = Append(@, j)]

\* start_etl up to the reset of etl_progress; a request whose body does not
\* parse goes to the except branch, which replaces errors
start_etl(j) ==
    /\ etl_job[j].pc = "none"
    /\ \A k \in Jobs : k < j => etl_job[k].pc # "none"
    /\ \E parsed \in BOOLEAN :
          IF parsed
          THEN /\ etl_progress' =
                     [etl_progress EXCEPT !.status = "running", !.by = j,
                                          !.progress = 0, !.progress_by = j,
                                          !.logs = <<>>, !.errors = <<>>]
               /\ etl_job' = [etl_job EXCEPT ![j].pc = "trigger_dag"]
          ELSE /\ etl_progress' =
                     [etl_progress EXCEPT !.status = "error", !.by = j,
                                          !.errors = <<j>>]
               /\ etl_job' = [etl_job EXCEPT ![j].pc = "returned"]
    /\ UNCHANGED airflow
    /\ UNCHANGED notEtlVars

\* the rest of start_etl: airflow_client.trigger_dag and the thread it starts
trigger_dag(j) ==
    /\ etl_job[j].pc = "trigger_dag"
    /\ \E dag_response \in {"dag_run", "None", "raises"} :
          CASE dag_response = "dag_run" ->
                 /\ airflow' = [airflow EXCEPT ![j].state = "running"]
                 /\ etl_progress' = [etl_progress EXCEPT !.dag_run_id = j]
                 /\ etl_job' = [etl_job EXCEPT ![j].pc = "monitor_airflow_dag"]
            [] dag_response = "None" ->
                 /\ etl_job' = [etl_job EXCEPT ![j].pc = "run_etl_background"]
                 /\ UNCHANGED <<airflow, etl_progress>>
            [] dag_response = "raises" ->
                 /\ etl_progress' =
                       [etl_progress EXCEPT !.status = "error", !.by = j,
                                            !.errors = <<j>>]
                 /\ etl_job' = [etl_job EXCEPT ![j].pc = "returned"]
                 /\ UNCHANGED airflow
    /\ UNCHANGED notEtlVars

\* the thread of monitor_airflow_dag reads the dag_run_id of etl_progress
monitor_airflow_dag(j) ==
    /\ etl_job[j].pc = "monitor_airflow_dag"
    /\ etl_job' = [etl_job EXCEPT
                      ![j].pc = IF etl_progress.dag_run_id = 0
                                THEN "returned" ELSE "while",
                      ![j].dag_run_id = etl_progress.dag_run_id,
                      ![j].current_task_index = 0]
    /\ UNCHANGED <<etl_progress, airflow>>
    /\ UNCHANGED notEtlVars

\* one pass of the while loop up to the branch on the state of the DAG
get_dag_status(j) ==
    /\ etl_job[j].pc = "while"
    /\ IF etl_job[j].current_task_index >= Len(tasks)
       THEN /\ etl_job' = [etl_job EXCEPT ![j].pc = "returned"]
            /\ UNCHANGED etl_progress
       ELSE \E dag_status \in {"status", "None", "raises"} :
               CASE dag_status = "None" ->
                      /\ etl_job' = [etl_job EXCEPT ![j].pc = "returned"]
                      /\ UNCHANGED etl_progress
                 [] dag_status = "raises" ->
                      /\ etl_progress' = ErrorUpdate(j)
                      /\ etl_job' = [etl_job EXCEPT ![j].pc = "returned"]
                 [] dag_status = "status" ->
                      CASE airflow[etl_job[j].dag_run_id].state = "running" ->
                             /\ etl_job' = [etl_job EXCEPT ![j].pc = "for",
                                                           ![j].i = 0]
                             /\ UNCHANGED etl_progress
                        [] airflow[etl_job[j].dag_run_id].state = "success" ->
                             /\ etl_progress' =
                                   [etl_progress EXCEPT
                                       !.status = "completed", !.by = j,
                                       !.progress = 100, !.progress_by = j,
                                       !.logs = LastLines(Append(@,
                                           [job |-> j, line |-> "concluido com sucesso"]))]
                             /\ etl_job' = [etl_job EXCEPT ![j].pc = "returned"]
                        [] airflow[etl_job[j].dag_run_id].state = "failed" ->
                             /\ etl_progress' = ErrorUpdate(j)
                             /\ etl_job' = [etl_job EXCEPT ![j].pc = "returned"]
                        [] OTHER ->
                             /\ UNCHANGED <<etl_progress, etl_job>>
    /\ UNCHANGED airflow
    /\ UNCHANGED notEtlVars

\* one pass of the for loop over the tasks; after the loop, or at a running
\* task, the thread sleeps and goes back to the while loop
for_task_status(j) ==
    /\ etl_job[j].pc = "for"
    /\ IF etl_job[j].i = Len(tasks)
       THEN /\ etl_job' = [etl_job EXCEPT ![j].pc = "while"]
            /\ UNCHANGED etl_progress
       ELSE LET i == etl_job[j].i
                task_state == get_task_status(etl_job[j].dag_run_id, i)
            IN  CASE task_state = "running" ->
                       /\ etl_progress' =
                             [etl_progress EXCEPT
                                 !.progress = (i * 100) \div Len(tasks),
                                 !.progress_by = j,
                                 !.logs = LastLines(Append(@,
                                     [job |-> j, line |-> "Executando tarefa"]))]
                       /\ etl_job' = [etl_job EXCEPT ![j].pc = "while",
                                                     ![j].current_task_index = i]
                  [] task_state = "success" ->
                       /\ etl_progress' =
                             [etl_progress EXCEPT
                                 !.progress = ((i + 1) * 100) \div Len(tasks),
                                 !.progress_by = j,
                                 !.logs = LastLines(Append(@,
                                     [job |-> j, line |-> "Tarefa concluida"]))]
                       /\ etl_job' = [etl_job EXCEPT ![j].i = i + 1,
                                                     ![j].current_task_index = i + 1]
                  [] task_state = "failed" ->
                       /\ etl_progress' = ErrorUpdate(j)
                       /\ etl_job' = [etl_job EXCEPT ![j].pc = "returned"]
                  [] OTHER ->
                       /\ etl_job' = [etl_job EXCEPT ![j].i = i + 1]
                       /\ UNCHANGED etl_progress
    /\ UNCHANGED airflow
    /\ UNCHANGED notEtlVars

\* the fallback thread: run_etl_main() returns or raises
run_etl_background(j) ==
    /\ etl_job[j].pc = "run_etl_background"
    /\ \E returns \in BOOLEAN :
          etl_progress' =
             IF returns
             THEN [etl_progress EXCEPT !.status = "completed", !.by = j,
                                       !.progress = 100, !.progress_by = j]
             ELSE ErrorUpdate(j)
    /\ etl_job' = [etl_job EXCEPT ![j].pc = "returned"]
    /\ UNCHANGED airflow
    /\ UNCHANGED notEtlVars

\* Airflow finishes the running task of a DAG run
AirflowTaskSucceeds(j) ==
    /\ airflow[j].state = "running"
    /\ airflow[j].done < Len(tasks)
    /\ airflow' = [airflow EXCEPT ![j].done = @ + 1]
    /\ UNCHANGED <<etl_progress, etl_job>>
    /\ UNCHANGED notEtlVars

\* Airflow ends a DAG run: success after the last task, failed at a task
AirflowDagEnds(j) ==
    /\ airflow[j].state = "running"
    /\ airflow' = [airflow EXCEPT ![j].state =
                      IF airflow[j].done = Len(tasks) THEN "success" ELSE "failed"]
    /\ UNCHANGED <<etl_progress, etl_job>>
    /\ UNCHANGED notEtlVars

NextEtl ==
    \E j \in Jobs :
        \/ start_etl(j)
        \/ trigger_dag(j)
        \/ monitor_airflow_dag(j)
        \/ get_dag_status(j)
        \/ for_task_status(j)
        \/ run_etl_background(j)
        \/ AirflowTaskSucceeds(j)
        \/ AirflowDagEnds(j)

SpecEtl == Init /\ [][NextEtl]_vars

\* get_etl_progress: what the view reports of etl_progress
get_etl_progress ==
    [status |-> etl_progress.status, progress |-> etl_progress.progress,
     logs |-> etl_progress.logs, errors |-> etl_progress.errors]

\* the job started last, 0 before the first start_etl
LastStarted ==
    IF \A j \in Jobs : etl_job[j].pc = "none" THEN 0
    ELSE CHOOSE j \in Jobs :
            /\ etl_job[j].pc # "none"
            /\ \A k \in Jobs : etl_job[k].pc # "none" => k <= j

\* C24: ETL job progress is isolated per job: the status, progress, logs
\* and errors that get_etl_progress reports were all written by one job,
\* the job started last; in particular a status of completed or error
\* belongs to the job started last.
C24_JobsIsolated ==
    LastStarted # 0 =>
        /\ get_etl_progress.status \in {"completed", "error"} =>
              etl_progress.by = LastStarted
        /\ etl_progress.progress_by = LastStarted
        /\ \A k \in 1..Len(get_etl_progress.logs) :
              get_etl_progress.logs[k].job = LastStarted
        /\ \A k \in 1..Len(get_etl_progress.errors) :
              get_etl_progress.errors[k] = LastStarted

(***************************************************************************)
(* The ETL demo session (etl_demo).  session is the ETLSession row in the  *)
(* database.  Every process_csv request reads the row into an object of    *)
(* its own, processor[p].session, and starts a thread that runs _process   *)
(* on it; save() writes the object's fields back to the row.  Requests are *)
(* numbered in the order in which they arrive.  processor[p].i is the      *)
(* index of the loop the thread is in and processor[p].rows the len(df)    *)
(* that _load_data sees.                                                   *)
(***************************************************************************)
Requests == 1..MaxRequests

\* batch_size of _load_data
batch_size == 100

\* len(df) of the frame handed to _load_data: empty, two batches, large
Lengths == {0, 150, 10001}

\* ETLProcessor._update_status, without the save
_update_status(self_session, status, progress) ==
    [self_session EXCEPT !.status = status, !.progress = progress]

\* ETLProcessor._update_progress, without the save
_update_progress(self_session, progress) ==
    [self_session EXCEPT !.progress = progress]

\* self.session changes to s and self.session.save() writes it to the row
Save(p, s, pc_, i_) ==
    /\ processor' = [processor EXCEPT ![p].session = s, ![p].pc = pc_, ![p].i = i_]
    /\ session' = s

\* process_csv: ETLSession.objects.get and start_processing
process_csv(p) ==
    /\ processor[p].pc = "none"
    /\ \A k \in Requests : k < p => processor[k].pc # "none"
    /\ processor' = [processor EXCEPT ![p].pc = "_process", ![p].session = session]
    /\ UNCHANGED session
    /\ UNCHANGED notDemoVars

\* _process up to _update_status('validating', ..., 10)
_process(p) ==
    /\ processor[p].pc = "_process"
    /\ Save(p, _update_status(processor[p].session, "validating", 10),
            "validating", 0)
    /\ UNCHANGED notDemoVars

\* _validate_data returns: _update_status('cleaning', ..., 30)
_validate_data(p) ==
    /\ processor[p].pc = "validating"
    /\ Save(p, _update_status(processor[p].session, "cleaning", 30), "cleaning", 0)
    /\ UNCHANGED notDemoVars

\* one of the four steps of _clean_data, or its return and
\* _update_status('transforming', ..., 60)
_clean_data(p) ==
    /\ processor[p].pc = "cleaning"
    /\ LET i == processor[p].i
       IN  IF i < 4
           THEN Save(p, _update_progress(processor[p].session, 30 + (i + 1) * 7),
                     "cleaning", i + 1)
           ELSE Save(p, _update_status(processor[p].session, "transforming", 60),
                     "transforming", 0)
    /\ UNCHANGED notDemoVars

\* one of the five indicators of _transform_data, or its return and
\* _update_status('loading', ..., 80)
_transform_data(p) ==
    /\ processor[p].pc = "transforming"
    /\ LET i == processor[p].i
       IN  IF i < 5
           THEN Save(p, _update_progress(processor[p].session, 60 + (i + 1) * 4),
                     "transforming", i + 1)
           ELSE \E len_df \in Lengths :
                   /\ processor' = [processor EXCEPT
                         ![p].session = _update_status(@, "loading", 80),
                         ![p].pc = "loading", ![p].i = 0, ![p].rows = len_df]
                   /\ session' = _update_status(processor[p].session, "loading", 80)
    /\ UNCHANGED notDemoVars

\* one batch of _load_data, or its return and
\* _update_status('completed', ..., 100)
_load_data(p) ==
    /\ processor[p].pc = "loading"
    /\ LET i == processor[p].i
           len_df == processor[p].rows
           total_batches == len_df \div batch_size + 1
           start_idx == i * batch_size
           end_idx == IF (i + 1) * batch_size < len_df
                      THEN (i + 1) * batch_size ELSE len_df
       IN  IF len_df <= 10000 /\ i < total_batches /\ start_idx < end_idx
           THEN Save(p, _update_progress(processor[p].session,
                                         80 + (end_idx * 20) \div len_df),
                     "loading", i + 1)
           ELSE Save(p, _update_status(processor[p].session, "completed", 100),
                     "returned", 0)
    /\ UNCHANGED notDemoVars

\* the except branch of _process: a stage raised
except_Exception(p) ==
    /\ processor[p].pc \in {"_process", "validating", "cleaning", "transforming",
                            "loading"}
    /\ Save(p, [processor[p].session EXCEPT !.status = "error"], "returned", 0)
    /\ UNCHANGED notDemoVars

NextDemo ==
    \E p \in Requests :
        \/ process_csv(p)
        \/ _process(p)
        \/ _validate_data(p)
        \/ _clean_data(p)
        \/ _transform_data(p)
        \/ _load_data(p)
        \/ except_Exception(p)

SpecDemo == Init /\ [][NextDemo]_vars

StatusOrder ==
    << "uploaded", "validating", "cleaning", "transforming", "loading",
       "completed" >>

Stage(status) ==
    IF status = "error" THEN 0
    ELSE CHOOSE k \in 1..Len(StatusOrder) : StatusOrder[k] = status

\* C30: the session moves forward only: a change of its status is to the
\* next of validating, cleaning, transforming, loading, completed, or to
\* error; a status of completed or error never changes; the stored progress
\* never decreases.
C30_ForwardOnly ==
    [][ /\ session'.progress >= session.progress
        /\ session.status \in {"completed", "error"} =>
              session'.status = session.status
        /\ session'.status # session.status =>
              \/ session'.status = "error"
              \/ Stage(session'.status) = Stage(session.status) + 1 ]_vars
====
